---- MODULE Spec2Model ----
(***************************************************************************)
(* Model of the web-inspector analysis back end:                           *)
(*   api/analyze.js            the HTTP endpoint (module.exports)          *)
(*   api/website-analyzer.js   analyzeWebsite, performRuleCheck,           *)
(*                             generateRecommendations                     *)
(*   api/web-design-rules.js   the rule catalog (webDesignRules)           *)
(*                                                                         *)
(* One request is followed from the endpoint through the rule selection,   *)
(* the fetch (a promise settled by timer, request and response callbacks), *)
(* the rule evaluation and the answer of the endpoint.                     *)
(*                                                                         *)
(* JavaScript strings that the code inspects character by character (rule  *)
(* ids, source citations, the filter token, URLs) are sequences of         *)
(* one-character strings, so startsWith / includes / toLowerCase are       *)
(* computed, not assumed.                                                  *)
(***************************************************************************)
EXTENDS Integers, Sequences, FiniteSets, TLC

(***************************************************************************)
(* Bounds of the model.                                                    *)
(***************************************************************************)
\* number of catalog rules the model carries (a sub-list of the catalog,
\* in catalog order)
NRules == 10

\* number of entries of RULE_SOURCES whose id the user interface sends as the
\* source filter
NSources == 7

(***************************************************************************)
(* String helpers: the methods of String.prototype the code uses.          *)
(***************************************************************************)
UpperChars == <<"A", "B", "C", "D", "E", "F", "G", "H", "I", "J", "K", "L", "M",
                "N", "O", "P", "Q", "R", "S", "T", "U", "V", "W", "X", "Y", "Z">>
LowerChars == <<"a", "b", "c", "d", "e", "f", "g", "h", "i", "j", "k", "l", "m",
                "n", "o", "p", "q", "r", "s", "t", "u", "v", "w", "x", "y", "z">>

\* the lower-case letter of each upper-case letter
lowerOf ==
    [c \in {UpperChars[i] : i \in 1..Len(UpperChars)} |->
        LowerChars[CHOOSE i \in 1..Len(UpperChars) : UpperChars[i] = c]]

toLowerChar(c) == IF c \in DOMAIN lowerOf THEN lowerOf[c] ELSE c

toLowerCase(s) == [i \in 1..Len(s) |-> toLowerChar(s[i])]

startsWith(s, p) == Len(p) <= Len(s) /\ SubSeq(s, 1, Len(p)) = p

includes(s, p) ==
    \E text \in {s}, pattern \in {p} :
        \E i \in 0..(Len(text) - Len(pattern)) :
            SubSeq(text, i + 1, i + Len(pattern)) = pattern

\* JavaScript values that are not strings: the absent property (undefined)
\* and a number. They are one-element sequences no string can equal.
undefined == <<"(undefined)">>
NUM_5 == <<"(number 5)">>

isString(v) == v # undefined /\ v # NUM_5

\* JavaScript truthiness of a request property: undefined and '' are falsy
truthy(v) == v # undefined /\ v # <<>>

(***************************************************************************)
(* String literals.                                                        *)
(***************************************************************************)
ID_wcag_001 == <<"w", "c", "a", "g", "-", "0", "0", "1">>
ID_seo_004 == <<"s", "e", "o", "-", "0", "0", "4">>
ID_seo_005 == <<"s", "e", "o", "-", "0", "0", "5">>
ID_sec_001 == <<"s", "e", "c", "-", "0", "0", "1">>
ID_sec_002 == <<"s", "e", "c", "-", "0", "0", "2">>
ID_sec_003 == <<"s", "e", "c", "-", "0", "0", "3">>
ID_html_002 == <<"h", "t", "m", "l", "-", "0", "0", "2">>
ID_html_003 == <<"h", "t", "m", "l", "-", "0", "0", "3">>
ID_css_002 == <<"c", "s", "s", "-", "0", "0", "2">>
ID_js_003 == <<"j", "s", "-", "0", "0", "3">>
ID_mobile_003 == <<"m", "o", "b", "i", "l", "e", "-", "0", "0", "3">>
ID_seo_001 == <<"s", "e", "o", "-", "0", "0", "1">>
ID_seo_003 == <<"s", "e", "o", "-", "0", "0", "3">>
ID_seo_006 == <<"s", "e", "o", "-", "0", "0", "6">>
ID_connection_error == <<"c", "o", "n", "n", "e", "c", "t", "i", "o", "n", "-", "e", "r", "r", "o", "r">>
SRC_WCAG_1_1_1 == <<"W", "C", "A", "G", " ", "2", ".", "1", " ", "S", "u", "c", "c", "e", "s", "s", " ", "C", "r", "i", "t", "e", "r", "i", "o", "n", " ", "1", ".", "1", ".", "1">>
SRC_MDN_Web_Docs == <<"M", "D", "N", " ", "W", "e", "b", " ", "D", "o", "c", "s">>
SRC_Google_Web_dev == <<"G", "o", "o", "g", "l", "e", " ", "W", "e", "b", ".", "d", "e", "v">>
CAT_Accessibility == <<"A", "c", "c", "e", "s", "s", "i", "b", "i", "l", "i", "t", "y", " ", "(", "W", "C", "A", "G", " ", "2", ".", "1", ")">>
CAT_SEO == <<"S", "E", "O", " ", "(", "S", "e", "a", "r", "c", "h", " ", "E", "n", "g", "i", "n", "e", " ", "O", "p", "t", "i", "m", "i", "z", "a", "t", "i", "o", "n", ")">>
CAT_Security == <<"S", "e", "c", "u", "r", "i", "t", "y">>
CAT_HTML == <<"H", "T", "M", "L", " ", "B", "e", "s", "t", " ", "P", "r", "a", "c", "t", "i", "c", "e", "s">>
CAT_JavaScript == <<"J", "a", "v", "a", "S", "c", "r", "i", "p", "t", " ", "B", "e", "s", "t", " ", "P", "r", "a", "c", "t", "i", "c", "e", "s">>
CAT_Connectivity == <<"C", "o", "n", "n", "e", "c", "t", "i", "v", "i", "t", "y">>
REC_failure ==
    << <<"E", "n", "s", "u", "r", "e", " ", "w", "e", "b", "s", "i", "t", "e", " ", "i", "s", " ", "p", "u", "b", "l", "i", "c", "l", "y", " ", "a", "c", "c", "e", "s", "s", "i", "b", "l", "e">>,
       <<"C", "h", "e", "c", "k", " ", "C", "O", "R", "S", " ", "s", "e", "t", "t", "i", "n", "g", "s">>,
       <<"V", "e", "r", "i", "f", "y", " ", "S", "S", "L", " ", "c", "e", "r", "t", "i", "f", "i", "c", "a", "t", "e">> >>
STR_all == <<"a", "l", "l">>
STR_sec == <<"s", "e", "c">>
STR_OWASP == <<"O", "W", "A", "S", "P">>
STR_mdn == <<"m", "d", "n">>
STR_zzz == <<"z", "z", "z">>
STR_http_prefix == <<"h", "t", "t", "p", ":", "/", "/">>
STR_https_prefix == <<"h", "t", "t", "p", "s", ":", "/", "/">>
URL_malformed == <<"e", "x", "a", "m", "p", "l", "e", ".", "c", "o", "m">>
URL_http == <<"h", "t", "t", "p", ":", "/", "/", "a", ".", "i", "o", "/">>
URL_https == <<"h", "t", "t", "p", "s", ":", "/", "/", "a", ".", "i", "o", "/">>
LOC_relative == <<"/", "n", "e", "x", "t">>
LOC_http == <<"h", "t", "t", "p", ":", "/", "/", "b", ".", "i", "o", "/">>
LOC_https == <<"h", "t", "t", "p", "s", ":", "/", "/", "b", ".", "i", "o", "/">>
LOC_invalid == <<"h", "t", "t", "p", ":", "/", "/">>

(***************************************************************************)
(* The rule catalog (web-design-rules.js). The model carries the rules     *)
(* below, in catalog order, with their id, category, severity and source.  *)
(***************************************************************************)
Rule(id, name, category, severity, source) ==
    [id |-> id, name |-> name, category |-> category, severity |-> severity,
     source |-> source]

ModelledRules == <<
    Rule(ID_wcag_001, "Provide Text Alternatives for Non-Text Content",
         CAT_Accessibility, "error", SRC_WCAG_1_1_1),
    Rule(ID_seo_004, "Implement Structured Data (Schema.org)", CAT_SEO, "info",
         <<"S", "c", "h", "e", "m", "a", ".", "o", "r", "g">>),
    Rule(ID_seo_005, "Create XML Sitemap", CAT_SEO, "info",
         <<"G", "o", "o", "g", "l", "e", " ", "S", "e", "a", "r", "c", "h",
            " ", "C", "e", "n", "t", "r", "a", "l">>),
    Rule(ID_sec_001, "Serve Site Over HTTPS", CAT_Security, "error",
         <<"O", "W", "A", "S", "P", " ", "T", "o", "p", " ", "1", "0">>),
    Rule(ID_sec_002, "Implement Content Security Policy (CSP)", CAT_Security, "warning",
         <<"M", "D", "N", " ", "W", "e", "b", " ", "S", "e", "c", "u", "r",
            "i", "t", "y">>),
    Rule(ID_sec_003, "Set Security Headers", CAT_Security, "warning",
         <<"O", "W", "A", "S", "P", " ", "S", "e", "c", "u", "r", "e", " ",
            "H", "e", "a", "d", "e", "r", "s", " ", "P", "r", "o", "j", "e",
            "c", "t">>),
    Rule(ID_html_002, "Include DOCTYPE and Language Declaration", CAT_HTML, "error",
         <<"W", "3", "C", " ", "H", "T", "M", "L", "5", " ", "S", "p", "e",
            "c", "i", "f", "i", "c", "a", "t", "i", "o", "n">>),
    Rule(ID_html_003, "Include Essential Meta Tags", CAT_HTML, "error", SRC_MDN_Web_Docs),
    Rule(ID_css_002, "Optimize CSS Delivery",
         <<"C", "S", "S", " ", "B", "e", "s", "t", " ", "P", "r", "a", "c",
            "t", "i", "c", "e", "s">>, "warning", SRC_Google_Web_dev),
    Rule(ID_js_003, "Handle Errors Gracefully", CAT_JavaScript, "warning", SRC_MDN_Web_Docs),
    Rule(ID_mobile_003, "Optimize for Mobile Networks",
         <<"M", "o", "b", "i", "l", "e", " ", "O", "p", "t", "i", "m", "i",
            "z", "a", "t", "i", "o", "n">>, "warning", SRC_Google_Web_dev) >>

webDesignRules ==
    SubSeq(ModelledRules, 1, IF NRules < Len(ModelledRules) THEN NRules ELSE Len(ModelledRules))

\* filterRules that compares the source citation as it is written
RECURSIVE filterRules_caseSensitive(_, _)
filterRules_caseSensitive(rules, filter) ==
    IF rules = <<>> THEN <<>>
    ELSE LET rule == Head(rules)
             keep == \/ startsWith(rule.id, filter)
                     \/ includes(rule.source, filter)
         IN  (IF keep THEN <<rule>> ELSE <<>>) \o
             filterRules_caseSensitive(Tail(rules), filter)

\* the rules of the catalog, as a set
elementsOfCatalog == {ModelledRules[i] : i \in 1..Len(ModelledRules)}

\* Array.prototype.filter: the elements satisfying Test, in order
RECURSIVE filterRules(_, _)
filterRules(rules, filter) ==
    IF rules = <<>> THEN <<>>
    ELSE LET rule == Head(rules)
             keep == \/ startsWith(rule.id, filter)
                     \/ includes(toLowerCase(rule.source), toLowerCase(filter))
         IN  (IF keep THEN <<rule>> ELSE <<>>) \o filterRules(Tail(rules), filter)

\* the default parameter value: sourceFilter = 'all'
defaultFilter(sourceFilter) == IF sourceFilter = undefined THEN STR_all ELSE sourceFilter

\* selectRules without the test for 'all': 'all' is used as a filter token
selectRules_filtersAll(sourceFilter) ==
    IF truthy(sourceFilter)
    THEN filterRules(webDesignRules, sourceFilter)
    ELSE webDesignRules

\* the selection of analyzeWebsite; the argument is a string
selectRules(sourceFilter) ==
    IF truthy(sourceFilter) /\ sourceFilter # STR_all
    THEN filterRules(webDesignRules, sourceFilter)
    ELSE webDesignRules

\* the filter callback calls sourceFilter.toLowerCase(): a TypeError for a
\* filter that is not a string, as soon as one rule is tested whose id does
\* not start with it (startsWith coerces its argument and finds no match)
selectionThrows(sourceFilter) ==
    ~isString(sourceFilter) /\ sourceFilter # undefined /\ Len(webDesignRules) > 0

(***************************************************************************)
(* The ids of all the rules of the catalog (web-design-rules.js), in       *)
(* catalog order, and the labels of the switch of performRuleCheck, in the *)
(* order of the source text.                                               *)
(***************************************************************************)
catalogRuleIds == <<
    <<"w", "c", "a", "g", "-", "0", "0", "1">>,
    <<"w", "c", "a", "g", "-", "0", "0", "2">>,
    <<"w", "c", "a", "g", "-", "0", "0", "3">>,
    <<"w", "c", "a", "g", "-", "0", "0", "4">>,
    <<"w", "c", "a", "g", "-", "0", "0", "5">>,
    <<"w", "c", "a", "g", "-", "0", "0", "6">>,
    <<"c", "w", "v", "-", "0", "0", "1">>,
    <<"c", "w", "v", "-", "0", "0", "2">>,
    <<"c", "w", "v", "-", "0", "0", "3">>,
    <<"p", "e", "r", "f", "-", "0", "0", "1">>,
    <<"p", "e", "r", "f", "-", "0", "0", "2">>,
    <<"p", "e", "r", "f", "-", "0", "0", "3">>,
    <<"s", "e", "o", "-", "0", "0", "1">>,
    <<"s", "e", "o", "-", "0", "0", "2">>,
    <<"s", "e", "o", "-", "0", "0", "3">>,
    <<"s", "e", "o", "-", "0", "0", "4">>,
    <<"s", "e", "o", "-", "0", "0", "5">>,
    <<"s", "e", "o", "-", "0", "0", "6">>,
    <<"s", "e", "o", "-", "0", "0", "7">>,
    <<"s", "e", "c", "-", "0", "0", "1">>,
    <<"s", "e", "c", "-", "0", "0", "2">>,
    <<"s", "e", "c", "-", "0", "0", "3">>,
    <<"s", "e", "c", "-", "0", "0", "4">>,
    <<"h", "t", "m", "l", "-", "0", "0", "1">>,
    <<"h", "t", "m", "l", "-", "0", "0", "2">>,
    <<"h", "t", "m", "l", "-", "0", "0", "3">>,
    <<"c", "s", "s", "-", "0", "0", "1">>,
    <<"c", "s", "s", "-", "0", "0", "2">>,
    <<"c", "s", "s", "-", "0", "0", "3">>,
    <<"j", "s", "-", "0", "0", "1">>,
    <<"j", "s", "-", "0", "0", "2">>,
    <<"j", "s", "-", "0", "0", "3">>,
    <<"m", "o", "b", "i", "l", "e", "-", "0", "0", "1">>,
    <<"m", "o", "b", "i", "l", "e", "-", "0", "0", "2">>,
    <<"m", "o", "b", "i", "l", "e", "-", "0", "0", "3">>,
    <<"u", "x", "-", "0", "0", "1">>,
    <<"u", "x", "-", "0", "0", "2">>,
    <<"u", "x", "-", "0", "0", "3">>,
    <<"c", "o", "n", "t", "e", "n", "t", "-", "0", "0", "1">>,
    <<"c", "o", "n", "t", "e", "n", "t", "-", "0", "0", "2">> >>

\* a switch that has only its first three cases
caseLabels_firstCases == <<ID_sec_001, ID_html_002, ID_html_003>>

caseLabels == <<
    <<"s", "e", "c", "-", "0", "0", "1">>,
    <<"h", "t", "m", "l", "-", "0", "0", "2">>,
    <<"h", "t", "m", "l", "-", "0", "0", "3">>,
    <<"s", "e", "o", "-", "0", "0", "1">>,
    <<"s", "e", "o", "-", "0", "0", "2">>,
    <<"w", "c", "a", "g", "-", "0", "0", "1">>,
    <<"w", "c", "a", "g", "-", "0", "0", "4">>,
    <<"s", "e", "c", "-", "0", "0", "2">>,
    <<"s", "e", "c", "-", "0", "0", "3">>,
    <<"w", "c", "a", "g", "-", "0", "0", "2">>,
    <<"w", "c", "a", "g", "-", "0", "0", "3">>,
    <<"s", "e", "o", "-", "0", "0", "4">>,
    <<"c", "s", "s", "-", "0", "0", "2">>,
    <<"j", "s", "-", "0", "0", "3">>,
    <<"m", "o", "b", "i", "l", "e", "-", "0", "0", "3">>,
    <<"a", "i", "r", "b", "n", "b", "-", "0", "0", "4">>,
    <<"a", "i", "r", "b", "n", "b", "-", "0", "0", "5">>,
    <<"g", "o", "o", "g", "l", "e", "j", "s", "-", "0", "0", "2">>,
    <<"g", "o", "o", "g", "l", "e", "j", "s", "-", "0", "0", "3">>,
    <<"e", "s", "l", "i", "n", "t", "-", "0", "0", "1">>,
    <<"e", "s", "l", "i", "n", "t", "-", "0", "0", "4">>,
    <<"l", "i", "g", "h", "t", "h", "o", "u", "s", "e", "-", "0", "0", "3">>,
    <<"l", "i", "g", "h", "t", "h", "o", "u", "s", "e", "-", "0", "0", "4">>,
    <<"p", "w", "a", "-", "0", "0", "3">>,
    <<"p", "w", "a", "-", "0", "0", "4">>,
    <<"a", "1", "1", "y", "-", "0", "0", "3">>,
    <<"w", "e", "b", "a", "i", "m", "-", "0", "0", "1">>,
    <<"w", "e", "b", "a", "i", "m", "-", "0", "0", "2">>,
    <<"w", "e", "b", "a", "i", "m", "-", "0", "0", "3">>,
    <<"s", "c", "h", "e", "m", "a", "-", "0", "0", "2">>,
    <<"o", "g", "-", "0", "0", "2">>,
    <<"h", "t", "t", "p", "a", "r", "c", "h", "-", "0", "0", "1">>,
    <<"h", "t", "t", "p", "a", "r", "c", "h", "-", "0", "0", "2">>,
    <<"c", "a", "r", "b", "o", "n", "-", "0", "0", "1">>,
    <<"c", "a", "r", "b", "o", "n", "-", "0", "0", "2">>,
    <<"m", "a", "t", "e", "r", "i", "a", "l", "-", "0", "0", "1">>,
    <<"m", "a", "t", "e", "r", "i", "a", "l", "-", "0", "0", "2">>,
    <<"s", "e", "o", "-", "0", "0", "3">>,
    <<"e", "s", "l", "i", "n", "t", "-", "0", "0", "2">>,
    <<"e", "s", "l", "i", "n", "t", "-", "0", "0", "3">>,
    <<"g", "o", "o", "g", "l", "e", "j", "s", "-", "0", "0", "1">>,
    <<"g", "o", "o", "g", "l", "e", "j", "s", "-", "0", "0", "4">>,
    <<"j", "s", "-", "0", "0", "2">>,
    <<"p", "e", "r", "f", "-", "0", "0", "3">>,
    <<"l", "i", "g", "h", "t", "h", "o", "u", "s", "e", "-", "0", "0", "2">>,
    <<"p", "e", "r", "f", "-", "0", "0", "2">>,
    <<"l", "i", "g", "h", "t", "h", "o", "u", "s", "e", "-", "0", "0", "1">>,
    <<"s", "e", "o", "-", "0", "0", "6">>,
    <<"s", "c", "h", "e", "m", "a", "-", "0", "0", "1">>,
    <<"o", "g", "-", "0", "0", "1">>,
    <<"o", "g", "-", "0", "0", "3">>,
    <<"p", "w", "a", "-", "0", "0", "1">>,
    <<"p", "w", "a", "-", "0", "0", "2">>,
    <<"w", "c", "a", "g", "-", "0", "0", "6">>,
    <<"w", "c", "a", "g", "-", "0", "0", "5">>,
    <<"h", "t", "m", "l", "-", "0", "0", "2">>,
    <<"h", "t", "m", "l", "-", "0", "0", "1">>,
    <<"c", "s", "s", "-", "0", "0", "3">>,
    <<"c", "s", "s", "-", "0", "0", "1">>,
    <<"a", "1", "1", "y", "-", "0", "0", "2">>,
    <<"a", "1", "1", "y", "-", "0", "0", "1">>,
    <<"m", "o", "b", "i", "l", "e", "-", "0", "0", "1">>,
    <<"m", "o", "b", "i", "l", "e", "-", "0", "0", "2">>,
    <<"s", "e", "o", "-", "0", "0", "6">>,
    <<"s", "e", "o", "-", "0", "0", "5">>,
    <<"s", "e", "o", "-", "0", "0", "3">>,
    <<"s", "e", "o", "-", "0", "0", "7">>,
    <<"s", "e", "c", "-", "0", "0", "2">>,
    <<"s", "e", "c", "-", "0", "0", "3">>,
    <<"s", "e", "c", "-", "0", "0", "4">>,
    <<"a", "i", "r", "b", "n", "b", "-", "0", "0", "1">>,
    <<"a", "i", "r", "b", "n", "b", "-", "0", "0", "2">>,
    <<"a", "i", "r", "b", "n", "b", "-", "0", "0", "3">>,
    <<"p", "e", "r", "f", "-", "0", "0", "1">>,
    <<"c", "w", "v", "-", "0", "0", "1">>,
    <<"c", "w", "v", "-", "0", "0", "2">>,
    <<"j", "s", "-", "0", "0", "1">>,
    <<"c", "w", "v", "-", "0", "0", "3">>,
    <<"u", "x", "-", "0", "0", "3">>,
    <<"u", "x", "-", "0", "0", "1">>,
    <<"u", "x", "-", "0", "0", "2">>,
    <<"c", "o", "n", "t", "e", "n", "t", "-", "0", "0", "1">>,
    <<"c", "o", "n", "t", "e", "n", "t", "-", "0", "0", "2">> >>

(***************************************************************************)
(* RULE_SOURCES (rule-source.model.ts): the sources the user interface     *)
(* offers, each with its id and the ids of the rules it stands for.        *)
(***************************************************************************)
RuleSource(id, ruleIds) == [id |-> id, ruleIds |-> ruleIds]

RULE_SOURCES == <<
    RuleSource(<<"a", "l", "l">>,
        <<>>),
    RuleSource(<<"w", "c", "a", "g">>,
        <<
            <<"w", "c", "a", "g", "-", "0", "0", "1">>,
            <<"w", "c", "a", "g", "-", "0", "0", "2">>,
            <<"w", "c", "a", "g", "-", "0", "0", "3">>,
            <<"w", "c", "a", "g", "-", "0", "0", "4">>,
            <<"w", "c", "a", "g", "-", "0", "0", "5">>,
            <<"w", "c", "a", "g", "-", "0", "0", "6">> >>),
    RuleSource(<<"c", "o", "r", "e", "-", "w", "e", "b", "-", "v", "i", "t", "a", "l", "s">>,
        <<
            <<"c", "w", "v", "-", "0", "0", "1">>,
            <<"c", "w", "v", "-", "0", "0", "2">>,
            <<"c", "w", "v", "-", "0", "0", "3">>,
            <<"p", "e", "r", "f", "-", "0", "0", "1">>,
            <<"p", "e", "r", "f", "-", "0", "0", "2">>,
            <<"p", "e", "r", "f", "-", "0", "0", "3">> >>),
    RuleSource(<<"s", "e", "o">>,
        <<
            <<"s", "e", "o", "-", "0", "0", "1">>,
            <<"s", "e", "o", "-", "0", "0", "2">>,
            <<"s", "e", "o", "-", "0", "0", "3">>,
            <<"s", "e", "o", "-", "0", "0", "4">>,
            <<"s", "e", "o", "-", "0", "0", "5">>,
            <<"s", "e", "o", "-", "0", "0", "6">>,
            <<"s", "e", "o", "-", "0", "0", "7">> >>),
    RuleSource(<<"s", "e", "c", "u", "r", "i", "t", "y">>,
        <<
            <<"s", "e", "c", "-", "0", "0", "1">>,
            <<"s", "e", "c", "-", "0", "0", "2">>,
            <<"s", "e", "c", "-", "0", "0", "3">>,
            <<"s", "e", "c", "-", "0", "0", "4">> >>),
    RuleSource(<<"h", "t", "m", "l", "-", "c", "s", "s">>,
        <<
            <<"h", "t", "m", "l", "-", "0", "0", "1">>,
            <<"h", "t", "m", "l", "-", "0", "0", "2">>,
            <<"h", "t", "m", "l", "-", "0", "0", "3">>,
            <<"c", "s", "s", "-", "0", "0", "1">>,
            <<"c", "s", "s", "-", "0", "0", "2">>,
            <<"c", "s", "s", "-", "0", "0", "3">> >>),
    RuleSource(<<"j", "a", "v", "a", "s", "c", "r", "i", "p", "t">>,
        <<
            <<"j", "s", "-", "0", "0", "1">>,
            <<"j", "s", "-", "0", "0", "2">>,
            <<"j", "s", "-", "0", "0", "3">> >>),
    RuleSource(<<"m", "o", "b", "i", "l", "e">>,
        <<
            <<"m", "o", "b", "i", "l", "e", "-", "0", "0", "1">>,
            <<"m", "o", "b", "i", "l", "e", "-", "0", "0", "2">>,
            <<"m", "o", "b", "i", "l", "e", "-", "0", "0", "3">> >>),
    RuleSource(<<"u", "x">>,
        <<
            <<"u", "x", "-", "0", "0", "1">>,
            <<"u", "x", "-", "0", "0", "2">>,
            <<"u", "x", "-", "0", "0", "3">> >>),
    RuleSource(<<"c", "o", "n", "t", "e", "n", "t">>,
        <<
            <<"c", "o", "n", "t", "e", "n", "t", "-", "0", "0", "1">>,
            <<"c", "o", "n", "t", "e", "n", "t", "-", "0", "0", "2">> >>) >>

(***************************************************************************)
(* URLs (the WHATWG URL class, for the http and https schemes).            *)
(***************************************************************************)
\* new URL(input): the scheme is matched case-insensitively and a host must
\* follow it; anything else the model feeds it has no scheme and throws
\* TypeError 'Invalid URL'. ok = FALSE stands for the throw.
parseURL(input) ==
    LET lower == toLowerCase(input)
    IN  IF ~isString(input) THEN [ok |-> FALSE, protocol |-> "none"]
        ELSE IF startsWith(lower, STR_https_prefix) /\ Len(input) > Len(STR_https_prefix)
             THEN [ok |-> TRUE, protocol |-> "https:"]
        ELSE IF startsWith(lower, STR_http_prefix) /\ Len(input) > Len(STR_http_prefix)
             THEN [ok |-> TRUE, protocol |-> "http:"]
        ELSE [ok |-> FALSE, protocol |-> "none"]

hasScheme(input) ==
    \/ startsWith(toLowerCase(input), STR_https_prefix)
    \/ startsWith(toLowerCase(input), STR_http_prefix)

\* new URL(location, base): an absolute location is parsed on its own, a
\* relative one takes the scheme of the base
resolveURL(location, base) ==
    IF hasScheme(location) THEN parseURL(location) ELSE parseURL(base)

\* protocol = urlObj.protocol === 'https:' ? https : http
protocolModule(url) == IF parseURL(url).protocol = "https:" THEN "https" ELSE "http"

\* http.get / https.get throw ERR_INVALID_PROTOCOL, before anything is sent,
\* for a URL whose scheme is not the module's own
getThrows(module, parsed) ==
    parsed.protocol # (IF module = "https" THEN "https:" ELSE "http:")

\* urlObj.hostname of a URL that parsed: the text between the "//" of the
\* scheme and the next "/", in lower case (the URLs of the model carry no
\* user name, port, query or fragment)
hostname(url) ==
    LET rest == SubSeq(url, IF parseURL(url).protocol = "https:" THEN 9 ELSE 8, Len(url))
        slashes == {i \in 1..Len(rest) : rest[i] = "/"}
        end == IF slashes = {} THEN Len(rest)
               ELSE (CHOOSE i \in slashes : \A j \in slashes : i <= j) - 1
    IN  toLowerCase(SubSeq(rest, 1, end))

\* String.prototype.replace with a string pattern: the first occurrence of
\* the pattern, wherever it is, is replaced; without one the text is returned
replace(text, pattern, replacement) ==
    LET starts == {i \in 1..(Len(text) - Len(pattern) + 1) :
                      SubSeq(text, i, i + Len(pattern) - 1) = pattern}
    IN  IF starts = {} THEN text
        ELSE LET first == CHOOSE i \in starts : \A j \in starts : i <= j
             IN  SubSeq(text, 1, first - 1) \o replacement
                    \o SubSeq(text, first + Len(pattern), Len(text))

\* extractSiteName: the hostname without 'www.', or 'Unknown Site' when
\* new URL(url) throws
extractSiteName(url) ==
    IF parseURL(url).ok
    THEN replace(hostname(url), <<"w", "w", "w", ".">>, <<>>)
    ELSE <<"U", "n", "k", "n", "o", "w", "n", " ", "S", "i", "t", "e">>

(***************************************************************************)
(* Fetched content. The predicates test the body with regular expressions; *)
(* a body is the record of the outcomes of those tests.                    *)
(***************************************************************************)
\* The first seven fields are the outcomes of the tests on the document head;
\* the others count tags (images: <img ...>, imgsWithoutAlt: <img> without
\* alt=, inlineStyles: <style>, externalStyles: <link rel="stylesheet">,
\* scripts: <script, scriptsWithSrc: <script ... src=), record further tests
\* (preload, tryCatch, errorHandler, aria: aria-, alt: alt=) and the length of
\* the text (size). lang: <html ... lang=, canonical: <link rel="canonical">.
\* blockingScripts, blockingStyles: <script src=...> without defer or async,
\* <link rel="stylesheet"> without media="print"; webp, avif: <source type=
\* "image/webp">, "image/avif"; lazyImages: <img ... loading="lazy";
\* scriptsDefer, scriptsAsync: <script ... defer, async; scriptTags: <script
\* ...>; inlineScripts: <script>...</script> without src=.
\* text is the text itself, for the rules whose tests the model computes on
\* it (the title, the headings); a body given by its text has the size of the
\* text and none of the other things. Html(...) is a text with none of these.
Html(doctype, charset, viewport, description, jsonLd, microdata, sitemap) ==
    [doctype |-> doctype, charset |-> charset, viewport |-> viewport,
     description |-> description, jsonLd |-> jsonLd, microdata |-> microdata,
     sitemap |-> sitemap,
     images |-> 0, imgsWithoutAlt |-> 0, preload |-> FALSE, inlineStyles |-> 0,
     externalStyles |-> 0, tryCatch |-> FALSE, errorHandler |-> FALSE,
     scripts |-> 0, scriptsWithSrc |-> 0, aria |-> FALSE, alt |-> FALSE, size |-> 0,
     lang |-> FALSE, canonical |-> FALSE, text |-> <<>>,
     blockingScripts |-> 0, blockingStyles |-> 0, webp |-> FALSE, avif |-> FALSE,
     lazyImages |-> 0, scriptsDefer |-> 0, scriptsAsync |-> 0, scriptTags |-> 0,
     inlineScripts |-> 0]

\* the empty body
HtmlEmpty == Html(FALSE, FALSE, FALSE, FALSE, FALSE, FALSE, FALSE)
\* <!DOCTYPE html> and nothing the other rules look for
HtmlDoctypeOnly ==
    [Html(TRUE, FALSE, FALSE, FALSE, FALSE, FALSE, FALSE) EXCEPT !.size = 15]
\* a page with charset and description meta tags and microdata, no viewport
HtmlNoViewport ==
    [Html(FALSE, TRUE, FALSE, TRUE, FALSE, TRUE, FALSE) EXCEPT !.size = 700]
\* three images, one of them without alt text, and nothing else
HtmlImages ==
    [Html(FALSE, FALSE, FALSE, FALSE, FALSE, FALSE, FALSE) EXCEPT
        !.images = 3, !.imgsWithoutAlt = 1, !.alt = TRUE, !.size = 90]
\* a page that has everything
HtmlComplete ==
    [Html(TRUE, TRUE, TRUE, TRUE, TRUE, FALSE, TRUE) EXCEPT
        !.images = 2, !.alt = TRUE, !.aria = TRUE, !.preload = TRUE,
        !.inlineStyles = 1, !.externalStyles = 2, !.tryCatch = TRUE,
        !.scripts = 3, !.scriptsWithSrc = 2, !.size = 4000,
        !.lang = TRUE, !.canonical = TRUE, !.webp = TRUE, !.lazyImages = 2,
        !.scriptsDefer = 2, !.scriptTags = 3, !.inlineScripts = 1,
        !.blockingStyles = 2]
\* six images, two of them lazy, fifteen scripts of which one blocks
HtmlHeavy ==
    [HtmlEmpty EXCEPT !.images = 6, !.lazyImages = 2, !.avif = TRUE, !.alt = TRUE,
                      !.scripts = 15, !.scriptTags = 15, !.scriptsWithSrc = 15,
                      !.scriptsAsync = 14, !.blockingScripts = 1, !.size = 9000]

\* nineteen script tags in a text of 500,000 characters
HtmlNineteenScripts == [HtmlEmpty EXCEPT !.scripts = 19, !.size = 500000]
\* twenty script tags and an aria- attribute in a text of 499,999 characters
HtmlTwentyScripts ==
    [HtmlEmpty EXCEPT !.scripts = 20, !.aria = TRUE, !.size = 499999]

\* a body given by its text
HtmlText(text) == [HtmlEmpty EXCEPT !.text = text, !.size = Len(text)]

\* bodies given by their text
TextBodies == {
    \* the page of the scenario: a title of two characters, no heading
    HtmlText(
         <<"<", "h", "t", "m", "l", ">", "<", "h", "e", "a", "d", ">",
            "<", "t", "i", "t", "l", "e", ">", "H", "i", "<", "/", "t",
            "i", "t", "l", "e", ">", "<", "/", "h", "e", "a", "d", ">",
            "<", "b", "o", "d", "y", ">", "<", "/", "b", "o", "d", "y",
            ">", "<", "/", "h", "t", "m", "l", ">">>),
    \* nine lines: a title of 19 characters in line 3, one <h1> in line 6,
    \* an <h3> without an <h2> in line 7
    HtmlText(
         <<"<", "h", "t", "m", "l", ">", "\n", "<", "h", "e", "a", "d",
            ">", "\n", "<", "t", "i", "t", "l", "e", ">", "A", " ", "p",
            "a", "g", "e", " ", "a", "b", "o", "u", "t", " ", "t", "h",
            "i", "n", "g", "s", "<", "/", "t", "i", "t", "l", "e", ">",
            "\n", "<", "/", "h", "e", "a", "d", ">", "\n", "<", "b", "o",
            "d", "y", ">", "\n", "<", "h", "1", ">", "O", "n", "e", "<",
            "/", "h", "1", ">", "\n", "<", "h", "3", ">", "T", "h", "r",
            "e", "e", "<", "/", "h", "3", ">", "\n", "<", "/", "b", "o",
            "d", "y", ">", "\n", "<", "/", "h", "t", "m", "l", ">">>),
    \* a title of white space; one <h1>, an <h2> and an <h3>
    HtmlText(
         <<"<", "t", "i", "t", "l", "e", ">", " ", " ", " ", "<", "/",
            "t", "i", "t", "l", "e", ">", "\n", "<", "h", "1", ">", "A",
            "<", "/", "h", "1", ">", "\n", "<", "h", "2", ">", "B", "<",
            "/", "h", "2", ">", "\n", "<", "h", "3", ">", "C", "<", "/",
            "h", "3", ">">>),
    \* an empty title element; two <h1> in line 4
    HtmlText(
         <<"<", "h", "e", "a", "d", ">", "\n", "<", "t", "i", "t", "l",
            "e", ">", "<", "/", "t", "i", "t", "l", "e", ">", "\n", "<",
            "/", "h", "e", "a", "d", ">", "\n", "<", "h", "1", ">", "A",
            "<", "/", "h", "1", ">", "<", "h", "1", ">", "B", "<", "/",
            "h", "1", ">">>),
    \* a title of 10 characters between spaces, the tags in capitals; no heading
    HtmlText(
         <<"<", "T", "I", "T", "L", "E", ">", " ", "T", "e", "n", " ",
            "c", "h", "a", "r", "s", ".", " ", "<", "/", "T", "I", "T",
            "L", "E", ">">>),
    \* a title of 9 characters and one <h1> (the page of the HTTPS scenario)
    [HtmlText(
         <<"<", "!", "D", "O", "C", "T", "Y", "P", "E", " ", "h", "t",
            "m", "l", ">", "<", "h", "t", "m", "l", " ", "l", "a", "n",
            "g", "=", "\"", "e", "n", "\"", ">", "<", "t", "i", "t", "l",
            "e", ">", "N", "i", "n", "e", " ", "c", "h", "a", "r", "<",
            "/", "t", "i", "t", "l", "e", ">", "<", "h", "1", ">", "O",
            "n", "l", "y", "<", "/", "h", "1", ">", "<", "/", "h", "t",
            "m", "l", ">">>)
        EXCEPT !.doctype = TRUE, !.lang = TRUE],
    \* a title of 60 characters
    HtmlText(
         <<"<", "t", "i", "t", "l", "e", ">", "T", "h", "e", " ", "q",
            "u", "i", "c", "k", " ", "b", "r", "o", "w", "n", " ", "f",
            "o", "x", " ", "j", "u", "m", "p", "s", " ", "o", "v", "e",
            "r", " ", "t", "h", "e", " ", "l", "a", "z", "y", " ", "d",
            "o", "g", " ", "n", "e", "a", "r", " ", "t", "h", "e", " ",
            "o", "l", "d", " ", "m", "i", "l", "<", "/", "t", "i", "t",
            "l", "e", ">">>),
    \* a title of 61 characters
    HtmlText(
         <<"<", "t", "i", "t", "l", "e", ">", "T", "h", "e", " ", "q",
            "u", "i", "c", "k", " ", "b", "r", "o", "w", "n", " ", "f",
            "o", "x", " ", "j", "u", "m", "p", "s", " ", "o", "v", "e",
            "r", " ", "t", "h", "e", " ", "l", "a", "z", "y", " ", "d",
            "o", "g", " ", "n", "e", "a", "r", " ", "t", "h", "e", " ",
            "o", "l", "d", " ", "m", "i", "l", "!", "<", "/", "t", "i",
            "t", "l", "e", ">">>),
    \* a title element with an attribute, 22 characters of text
    HtmlText(
         <<"<", "t", "i", "t", "l", "e", " ", "l", "a", "n", "g", "=",
            "\"", "e", "n", "\"", ">", "A", " ", "p", "e", "r", "f", "e",
            "c", "t", "l", "y", " ", "f", "i", "n", "e", " ", "t", "i",
            "t", "l", "e", "<", "/", "t", "i", "t", "l", "e", ">">>),
    \* no title and no heading at all
    HtmlText(
         <<"<", "p", ">", "t", "e", "x", "t", "<", "/", "p", ">">>),
    \* an <h1> tag that the text breaks off in
    HtmlText(
         <<"<", "h", "1", " ", "c", "l", "a", "s", "s", "=", "\"", "x",
            "\"">>),
    \* five lines of 617 characters in all, the first after white space: two
    \* <h1> after white space in line 3
    HtmlText(
         <<" ", " ", "<", "p", ">", "a", "a", "a", "a", "a", "a", "a", "a", "a",
            "a", "a", "a", "a", "a", "a", "a", "a", "a", "a", "a", "a", "a", "a",
            "a", "a", "a", "a", "a", "a", "a", "a", "a", "a", "a", "a", "a", "a",
            "a", "a", "a", "a", "a", "a", "a", "a", "a", "a", "a", "a", "a", "a",
            "a", "a", "a", "a", "a", "a", "a", "a", "a", "a", "a", "a", "a", "a",
            "a", "a", "a", "a", "a", "a", "a", "a", "a", "a", "a", "a", "a", "a",
            "a", "a", "a", "a", "a", "a", "a", "a", "a", "a", "a", "a", "a", "a",
            "a", "a", "a", "a", "a", "a", "a", "a", "a", "a", "a", "a", "a", "a",
            "a", "a", "a", "a", "a", "a", "a", "a", "a", "a", "a", "a", "a", "a",
            "a", "a", "a", "a", "a", "a", "a", "a", "a", "a", "a", "a", "a", "a",
            "a", "a", "a", "a", "a", "<", "/", "p", ">", "\n", "<", "p", ">", "b",
            "b", "b", "b", "b", "b", "b", "b", "b", "b", "b", "b", "b", "b", "b",
            "b", "b", "b", "b", "b", "b", "b", "b", "b", "b", "b", "b", "b", "b",
            "b", "b", "b", "b", "b", "b", "b", "b", "b", "b", "b", "b", "b", "b",
            "b", "b", "b", "b", "b", "b", "b", "b", "b", "b", "b", "b", "b", "b",
            "b", "b", "b", "b", "b", "b", "b", "b", "b", "b", "b", "b", "b", "b",
            "b", "b", "b", "b", "b", "b", "b", "b", "b", "b", "b", "b", "b", "b",
            "b", "b", "b", "b", "b", "b", "b", "b", "b", "b", "b", "b", "b", "b",
            "b", "b", "b", "b", "b", "b", "b", "b", "b", "b", "b", "b", "b", "b",
            "b", "b", "b", "b", "b", "b", "b", "b", "b", "b", "b", "b", "b", "b",
            "b", "b", "b", "b", "b", "b", "b", "b", "b", "b", "b", "b", "b", "<",
            "/", "p", ">", "\n", " ", " ", "\t", "<", "h", "1", ">", "A", "<", "/",
            "h", "1", ">", "<", "h", "1", ">", "B", "<", "/", "h", "1", ">", "\n",
            "<", "p", ">", "c", "c", "c", "c", "c", "c", "c", "c", "c", "c", "c",
            "c", "c", "c", "c", "c", "c", "c", "c", "c", "c", "c", "c", "c", "c",
            "c", "c", "c", "c", "c", "c", "c", "c", "c", "c", "c", "c", "c", "c",
            "c", "c", "c", "c", "c", "c", "c", "c", "c", "c", "c", "c", "c", "c",
            "c", "c", "c", "c", "c", "c", "c", "c", "c", "c", "c", "c", "c", "c",
            "c", "c", "c", "c", "c", "c", "c", "c", "c", "c", "c", "c", "c", "c",
            "c", "c", "c", "c", "c", "c", "c", "c", "c", "c", "c", "c", "c", "c",
            "c", "c", "c", "c", "c", "c", "c", "c", "c", "c", "c", "c", "c", "c",
            "c", "c", "c", "c", "c", "c", "c", "c", "c", "c", "c", "c", "c", "c",
            "c", "c", "c", "c", "c", "c", "c", "c", "c", "c", "c", "c", "c", "c",
            "c", "c", "c", "<", "/", "p", ">", "\n", "<", "p", ">", "d", "d", "d",
            "d", "d", "d", "d", "d", "d", "d", "d", "d", "d", "d", "d", "d", "d",
            "d", "d", "d", "d", "d", "d", "d", "d", "d", "d", "d", "d", "d", "d",
            "d", "d", "d", "d", "d", "d", "d", "d", "d", "d", "d", "d", "d", "d",
            "d", "d", "d", "d", "d", "d", "d", "d", "d", "d", "d", "d", "d", "d",
            "d", "d", "d", "d", "d", "d", "d", "d", "d", "d", "d", "d", "d", "d",
            "d", "d", "d", "d", "d", "d", "d", "d", "d", "d", "d", "d", "d", "d",
            "d", "d", "d", "d", "d", "d", "d", "d", "d", "d", "d", "d", "d", "d",
            "d", "d", "d", "d", "d", "d", "d", "d", "d", "d", "d", "d", "d", "d",
            "d", "d", "d", "d", "d", "d", "d", "d", "d", "d", "d", "d", "d", "d",
            "d", "d", "d", "d", "d", "d", "d", "d", "d", "d", "d", "<", "/", "p", ">">>) }

Bodies == {HtmlEmpty, HtmlDoctypeOnly, HtmlNoViewport, HtmlImages, HtmlComplete}

\* response headers: the set of (lower-case) names that carry a value
HeaderSets == { {},
                {"content-security-policy"},
                {"x-content-type-options", "x-frame-options"} }
\* further headers for performRuleCheck called on its own
ProbeHeaderSets == HeaderSets \cup { {"x-frame-options"}, {"x-frame-options", "referrer-policy"} }

\* headers.get(name), as a truth value
headerPresent(headers, name) == name \in headers

(***************************************************************************)
(* Regular expressions on the text of a body. The expressions the modelled *)
(* rules use are a literal matched without regard to case (/<h1/i), and a  *)
(* literal followed by [^>]*> (/<h2[^>]*>/i).                              *)
(***************************************************************************)
RegExp(literal, toClose) == [literal |-> literal, toClose |-> toClose]

\* the end of the match that starts at position i of the text, 0 without one
matchEnd(text, i, regex) ==
    LET n == Len(regex.literal)
        closes == {j \in (i + n)..Len(text) : text[j] = ">"}
    IN  IF i + n - 1 > Len(text) THEN 0
        ELSE IF toLowerCase(SubSeq(text, i, i + n - 1)) # toLowerCase(regex.literal) THEN 0
        ELSE IF ~regex.toClose THEN i + n - 1
        ELSE IF closes = {} THEN 0
        ELSE CHOOSE j \in closes : \A k \in closes : j <= k

\* regex.test(text)
test(regex, text) == \E i \in 1..Len(text) : matchEnd(text, i, regex) # 0

\* (text.match(regex with /g) || []).length: the matches are taken from left
\* to right, each search starting after the end of the match before
RECURSIVE matchCountFrom(_, _, _)
matchCountFrom(text, i, regex) ==
    LET countAfter(starts) ==
            IF starts = {} THEN 0
            ELSE LET first == CHOOSE k \in starts : \A j \in starts : k <= j
                 IN  1 + matchCountFrom(text, matchEnd(text, first, regex) + 1, regex)
    IN  CHOOSE n \in {countAfter(starts) :
                         starts \in {{k \in i..Len(text) : matchEnd(text, k, regex) # 0}}} :
            TRUE

matchCount(text, regex) == matchCountFrom(text, 1, regex)

\* String.prototype.trim: white space taken off both ends
WhiteSpace == {" ", "\t", "\n", "\r"}
RECURSIVE trim(_)
trim(s) ==
    IF s = <<>> THEN s
    ELSE IF s[1] \in WhiteSpace THEN trim(Tail(s))
    ELSE IF s[Len(s)] \in WhiteSpace THEN trim(SubSeq(s, 1, Len(s) - 1))
    ELSE s

(***************************************************************************)
(* performRuleCheck: the verdict of one rule. A switch takes the first     *)
(* clause whose label equals rule.id.                                      *)
(***************************************************************************)
Check(passed, details) == [passed |-> passed, details |-> details]

boolText(b) == IF b THEN "true" ELSE "false"
\* the check mark and the cross of the details strings
markText(b) == IF b THEN "(v)" ELSE "(x)"

\* the decimal digits of a number, as a template literal prints it
RECURSIVE numberText(_)
numberText(n) ==
    LET digit == <<"0", "1", "2", "3", "4", "5", "6", "7", "8", "9">>[(n % 10) + 1]
    IN  IF n < 10 THEN <<digit>> ELSE numberText(n \div 10) \o <<digit>>

\* Math.round(n / d) for integers n >= 0, d > 0
roundedQuotient(n, d) == (2 * n + d) \div (2 * d)

\* defaultCheck that looks for 'performance' before 'javascript'
defaultCheck_performanceFirst(rule, html) ==
    LET categoryLower == toLowerCase(rule.category)
    IN  IF includes(categoryLower, <<"p", "e", "r", "f", "o", "r", "m", "a", "n", "c", "e">>)
        THEN Check(html.size < 500000,
                   "Page size: " \o ToString(roundedQuotient(html.size, 1024)) \o
                   "KB. Manual performance testing recommended for: " \o rule.name)
        ELSE IF includes(categoryLower, <<"j", "a", "v", "a", "s", "c", "r", "i", "p", "t">>)
        THEN Check(html.scripts < 20,
                   "JavaScript analysis: " \o ToString(html.scripts) \o
                   " script tags found. Manual review recommended for: " \o rule.name)
        ELSE IF includes(categoryLower, <<"a", "c", "c", "e", "s", "s", "i", "b", "i", "l", "i", "t", "y">>)
        THEN Check(html.aria \/ html.alt,
                   "Accessibility features: ARIA(" \o boolText(html.aria) \o
                   "), Alt text(" \o boolText(html.alt) \o
                   "). Manual testing recommended for: " \o rule.name)
        ELSE Check(FALSE,
                   "This rule requires manual inspection or advanced tooling: " \o
                   rule.name)

\* the default clause of the switch: the heuristic on the rule's category
\* the default clause of the earlier version, which lets a rule it cannot
\* check pass
defaultCheck_optimistic(rule, html) ==
    LET categoryLower == toLowerCase(rule.category)
    IN  IF includes(categoryLower, <<"j", "a", "v", "a", "s", "c", "r", "i", "p", "t">>)
        THEN Check(html.scripts < 20,
                   "JavaScript analysis: " \o ToString(html.scripts) \o
                   " script tags found. Manual review recommended for: " \o rule.name)
        ELSE IF includes(categoryLower, <<"p", "e", "r", "f", "o", "r", "m", "a", "n", "c", "e">>)
        THEN Check(html.size < 500000,
                   "Page size: " \o ToString(roundedQuotient(html.size, 1024)) \o
                   "KB. Manual performance testing recommended for: " \o rule.name)
        ELSE IF includes(categoryLower, <<"a", "c", "c", "e", "s", "s", "i", "b", "i", "l", "i", "t", "y">>)
        THEN Check(html.aria \/ html.alt,
                   "Accessibility features: ARIA(" \o boolText(html.aria) \o
                   "), Alt text(" \o boolText(html.alt) \o
                   "). Manual testing recommended for: " \o rule.name)
        ELSE Check(TRUE, "This rule requires manual inspection or advanced tooling.")

\* the default clause
defaultCheck(rule, html) ==
    LET categoryLower == toLowerCase(rule.category)
    IN  IF includes(categoryLower, <<"j", "a", "v", "a", "s", "c", "r", "i", "p", "t">>)
        THEN Check(html.scripts < 20,
                   "JavaScript analysis: " \o ToString(html.scripts) \o
                   " script tags found. Manual review recommended for: " \o rule.name)
        ELSE IF includes(categoryLower, <<"p", "e", "r", "f", "o", "r", "m", "a", "n", "c", "e">>)
        THEN Check(html.size < 500000,
                   "Page size: " \o ToString(roundedQuotient(html.size, 1024)) \o
                   "KB. Manual performance testing recommended for: " \o rule.name)
        ELSE IF includes(categoryLower, <<"a", "c", "c", "e", "s", "s", "i", "b", "i", "l", "i", "t", "y">>)
        THEN Check(html.aria \/ html.alt,
                   "Accessibility features: ARIA(" \o boolText(html.aria) \o
                   "), Alt text(" \o boolText(html.alt) \o
                   "). Manual testing recommended for: " \o rule.name)
        ELSE Check(FALSE,
                   "This rule requires manual inspection or advanced tooling: " \o
                   rule.name)

\* html.split('\n'): the lines of a text (one more than it has line feeds)
RECURSIVE split(_)
split(text) ==
    LET feeds == {i \in 1..Len(text) : text[i] = "\n"}
    IN  IF feeds = {} THEN << text >>
        ELSE LET first == CHOOSE i \in feeds : \A j \in feeds : i <= j
             IN  << SubSeq(text, 1, first - 1) >> \o split(SubSeq(text, first + 1, Len(text)))

\* lines.join('\n')
RECURSIVE join(_)
join(lines) ==
    IF lines = <<>> THEN <<>>
    ELSE IF Len(lines) = 1 THEN lines[1]
    ELSE lines[1] \o <<"\n">> \o join(Tail(lines))

\* text.substring(0, n)
substring(text, n) == SubSeq(text, 1, IF Len(text) < n THEN Len(text) ELSE n)

\* What extractSnippet returns: snippet and lineNumber are each null, written
\* << >>, or a value, written << value >>.
SnippetInfo(snippet, lineNumber) == [snippet |-> snippet, lineNumber |-> lineNumber]
NoSnippet == SnippetInfo(<<>>, <<>>)

\* a variant that reports the index of the line instead of its number
extractSnippet_zeroBased(html, pattern, context) ==
    LET lines == split(html.text)
        matching == {i \in 1..Len(lines) : test(pattern, lines[i])}
    IN  IF matching = {} THEN NoSnippet
        ELSE LET i == (CHOOSE k \in matching : \A j \in matching : k <= j) - 1
                 start == IF i - context < 0 THEN 0 ELSE i - context
                 end == IF Len(lines) < i + context + 1 THEN Len(lines)
                        ELSE i + context + 1
                 snippet == join(SubSeq(lines, start + 1, end))
             IN  SnippetInfo(<< substring(trim(snippet), 500) >>, << i >>)

\* extractSnippet(pattern, context) inside performRuleCheck(rule, html, ...):
\* the first line the pattern matches, with the lines around it
extractSnippet(html, pattern, context) ==
    LET lines == split(html.text)
        matching == {i \in 1..Len(lines) : test(pattern, lines[i])}
    IN  IF matching = {} THEN NoSnippet
        ELSE LET i == (CHOOSE k \in matching : \A j \in matching : k <= j) - 1
                 start == IF i - context < 0 THEN 0 ELSE i - context
                 end == IF Len(lines) < i + context + 1 THEN Len(lines)
                        ELSE i + context + 1
                 snippet == join(SubSeq(lines, start + 1, end))
             IN  SnippetInfo(<< substring(trim(snippet), 500) >>, << i + 1 >>)

\* a verdict with the codeSnippet and lineNumber the rule attaches to it
withSnippet(check, snippetInfo) ==
    [passed |-> check.passed, details |-> check.details,
     codeSnippet |-> snippetInfo.snippet, lineNumber |-> snippetInfo.lineNumber]

\* html.match(/<title>([^<]+)<\/title>/i): the text between the first
\* <title> and the </title> that follows it with one or more characters other
\* than "<" between them, as << text >>; << >> for null
match_title(text) ==
    LET lower == toLowerCase(text)
        open == <<"<", "t", "i", "t", "l", "e", ">">>
        close == <<"<", "/", "t", "i", "t", "l", "e", ">">>
        \* the first "<" at or after position i
        nextAngle(i) ==
            LET angles == {j \in i..Len(text) : text[j] = "<"}
            IN  IF angles = {} THEN 0 ELSE CHOOSE j \in angles : \A k \in angles : j <= k
        matches == {i \in 1..Len(text) :
                       /\ i + 6 <= Len(text)
                       /\ SubSeq(lower, i, i + 6) = open
                       /\ nextAngle(i + 7) > i + 7
                       /\ nextAngle(i + 7) + 7 <= Len(text)
                       /\ SubSeq(lower, nextAngle(i + 7), nextAngle(i + 7) + 7) = close}
    IN  IF matches = {} THEN <<>>
        ELSE LET first == CHOOSE i \in matches : \A k \in matches : i <= k
             IN  << SubSeq(text, first + 7, nextAngle(first + 7) - 1) >>

\* the render-blocking case without the label 'perf-003'
RenderBlockingIds_withoutPerf003 == {<<"j", "s", "-", "0", "0", "2">>, <<"l", "i", "g", "h", "t", "h", "o", "u", "s", "e", "-", "0", "0", "2">>}

\* the ids that share a case of the switch
RenderBlockingIds == {<<"j", "s", "-", "0", "0", "2">>, <<"p", "e", "r", "f", "-", "0", "0", "3">>,
                      <<"l", "i", "g", "h", "t", "h", "o", "u", "s", "e", "-", "0", "0", "2">>}
ImageFormatIds == {<<"p", "e", "r", "f", "-", "0", "0", "2">>, <<"l", "i", "g", "h", "t", "h", "o", "u", "s", "e", "-", "0", "0", "1">>}
LazyLoadingIds == {<<"p", "e", "r", "f", "-", "0", "0", "1">>, <<"c", "w", "v", "-", "0", "0", "1">>}
ScriptCostIds == {<<"j", "s", "-", "0", "0", "1">>, <<"c", "w", "v", "-", "0", "0", "3">>}

\* the heading counts and the verdict of seo-003; h1 is the expression that
\* counts the <h1> tags
\* a variant that accepts several <h1> headings
headingsCheck_anyH1(html, h1) ==
    LET h1Count == matchCount(html.text, h1)
        h2Count == matchCount(html.text, RegExp(<<"<", "h", "2">>, TRUE))
        h3Count == matchCount(html.text, RegExp(<<"<", "h", "3">>, TRUE))
        skipsLevels == h3Count > 0 /\ h2Count = 0
    IN  Check(h1Count >= 1 /\ ~skipsLevels,
              "Headings: " \o ToString(h1Count) \o " <h1>, " \o ToString(h2Count) \o
              " <h2>, " \o ToString(h3Count) \o " <h3>. " \o
              (IF skipsLevels THEN "Skips heading levels!" ELSE ""))

headingsCheck(html, h1) ==
    LET h1Count == matchCount(html.text, h1)
        h2Count == matchCount(html.text, RegExp(<<"<", "h", "2">>, TRUE))
        h3Count == matchCount(html.text, RegExp(<<"<", "h", "3">>, TRUE))
        skipsLevels == h3Count > 0 /\ h2Count = 0
    IN  Check(h1Count = 1 /\ ~skipsLevels,
              "Headings: " \o ToString(h1Count) \o " <h1>, " \o ToString(h2Count) \o
              " <h2>, " \o ToString(h3Count) \o " <h3>. " \o
              (IF skipsLevels THEN "Skips heading levels!" ELSE ""))

performRuleCheck(rule, html, headers, siteUrl) ==
    CASE rule.id = ID_sec_001 ->
           Check(startsWith(siteUrl, STR_https_prefix),
                 IF startsWith(siteUrl, STR_https_prefix)
                 THEN "Site uses HTTPS encryption."
                 ELSE "Site uses insecure HTTP protocol.")
      [] rule.id = ID_html_002 ->
           Check(html.doctype,
                 IF html.doctype
                 THEN "Document has proper HTML5 DOCTYPE."
                 ELSE "Missing or incorrect DOCTYPE declaration.")
      [] rule.id = ID_html_003 ->
           Check(html.charset /\ html.viewport,
                 "Charset: " \o markText(html.charset) \o
                 ", Viewport: " \o markText(html.viewport) \o
                 ", Description: " \o markText(html.description))
      [] rule.id \in {ID_sec_002, ID_sec_003} ->
           LET csp == headerPresent(headers, "content-security-policy")
               xContentType == headerPresent(headers, "x-content-type-options")
               xFrame == headerPresent(headers, "x-frame-options")
           IN  Check(csp \/ xContentType \/ xFrame,
                     "CSP: " \o markText(csp) \o
                     ", X-Content-Type-Options: " \o markText(xContentType) \o
                     ", X-Frame-Options: " \o markText(xFrame))
      [] rule.id = ID_seo_004 ->
           Check(html.jsonLd \/ html.microdata,
                 "Structured data: JSON-LD(" \o boolText(html.jsonLd) \o
                 "), Microdata(" \o boolText(html.microdata) \o ")")
      [] rule.id = ID_seo_005 ->
           Check(html.sitemap,
                 IF html.sitemap
                 THEN "Sitemap referenced in page."
                 ELSE "No sitemap reference found. Check /sitemap.xml manually.")
      [] rule.id = ID_wcag_001 ->
           Check(html.images = 0 \/ (html.imgsWithoutAlt = 0 /\ html.images > 0),
                 IF html.images = 0
                 THEN "No images found on page."
                 ELSE ToString(html.images) \o " images found, " \o
                      ToString(html.imgsWithoutAlt) \o " without alt text.")
      [] rule.id = ID_css_002 ->
           Check(html.preload \/ (html.inlineStyles > 0 /\ html.externalStyles > 0),
                 "Preload: " \o boolText(html.preload) \o
                 ", Inline styles: " \o ToString(html.inlineStyles) \o
                 ", External: " \o ToString(html.externalStyles))
      [] rule.id = ID_js_003 ->
           Check(html.tryCatch \/ html.errorHandler,
                 "Error handling: try/catch(" \o boolText(html.tryCatch) \o
                 "), error handlers(" \o boolText(html.errorHandler) \o ")")
      [] rule.id = ID_mobile_003 ->
           Check(html.size < 500000,
                 "HTML size: " \o ToString(roundedQuotient(html.size, 1024)) \o
                 "KB, " \o ToString(html.images) \o " images, " \o
                 ToString(html.scriptsWithSrc) \o " external scripts")
      [] rule.id = <<"p", "w", "a", "-", "0", "0", "3">> ->
           Check(startsWith(siteUrl, STR_https_prefix),
                 IF startsWith(siteUrl, STR_https_prefix)
                 THEN "Site uses HTTPS (required for PWA)."
                 ELSE "PWA requires HTTPS for service workers and modern APIs.")
      [] rule.id = ID_seo_001 ->
           LET titleMatch == match_title(html.text)
               trimmed == IF titleMatch = <<>> THEN <<>> ELSE trim(titleMatch[1])
               hasTitle == titleMatch # <<>> /\ Len(trimmed) > 0
               titleLength == Len(trimmed)
               goodLength == titleLength >= 10 /\ titleLength <= 60
               snippetInfo ==
                   IF titleMatch # <<>>
                   THEN extractSnippet(html, RegExp(<<"<", "t", "i", "t", "l", "e", ">">>,
                                                    FALSE), 1)
                   ELSE extractSnippet(html, RegExp(<<"<", "h", "e", "a", "d">>, FALSE), 3)
           IN  withSnippet(
               Check(hasTitle /\ goodLength,
                     IF hasTitle
                     THEN <<"T", "i", "t", "l", "e", " ", "\"">> \o trimmed \o <<"\"", " ", "(">>
                            \o numberText(titleLength) \o
                            <<" ", "c", "h", "a", "r", "s", ")", ".", " ", "O", "p", "t", "i", "m", "a", "l", ":", " ", "5", "0", "-", "6", "0", " ", "c", "h", "a", "r", "s", ".">>
                     ELSE <<"M", "i", "s", "s", "i", "n", "g", " ", "o", "r", " ",
                            "e", "m", "p", "t", "y", " ", "p", "a", "g", "e", " ",
                            "t", "i", "t", "l", "e", ".">>),
               snippetInfo)
      [] rule.id \in RenderBlockingIds ->
           Check(html.blockingScripts + html.blockingStyles = 0,
                 "Found " \o ToString(html.blockingScripts) \o
                 " render-blocking scripts and " \o ToString(html.blockingStyles) \o
                 " render-blocking stylesheets.")
      [] rule.id \in ImageFormatIds ->
           LET hasLazyLoad == html.lazyImages > 0
           IN  Check((html.webp \/ html.avif) /\ hasLazyLoad,
                     "Images: " \o ToString(html.images) \o
                     ", WebP: " \o (IF html.webp THEN "Yes" ELSE "No") \o
                     ", AVIF: No, Lazy Loading: " \o
                     (IF hasLazyLoad THEN "Yes" ELSE "No"))
      [] rule.id \in LazyLoadingIds ->
           \* lazyImages / images > 0.5 is false for 0 / 0 (NaN)
           Check(((html.images > 0 /\ 2 * html.lazyImages > html.images)
                      \/ html.images < 5)
                 /\ html.scriptsDefer + html.scriptsAsync > 0,
                 ToString(html.lazyImages) \o "/" \o ToString(html.images) \o
                 " images lazy-loaded, " \o ToString(html.scriptsDefer) \o
                 " deferred scripts, " \o ToString(html.scriptsAsync) \o
                 " async scripts")
      [] rule.id \in ScriptCostIds ->
           Check(html.scriptTags < 15 /\ html.inlineScripts < 5,
                 "Total scripts: " \o ToString(html.scriptTags) \o " (" \o
                 ToString(html.scriptTags - html.inlineScripts) \o " external, " \o
                 ToString(html.inlineScripts) \o " inline)")
      [] rule.id = ID_seo_003 ->
           LET h1Count == matchCount(html.text, RegExp(<<"<", "h", "1">>, FALSE))
               skipsLevels ==
                   /\ matchCount(html.text, RegExp(<<"<", "h", "3">>, TRUE)) > 0
                   /\ matchCount(html.text, RegExp(<<"<", "h", "2">>, TRUE)) = 0
               snippetInfo ==
                   IF h1Count # 1
                   THEN extractSnippet(html, RegExp(<<"<", "h", "1">>, FALSE), 2)
                   ELSE IF skipsLevels
                   THEN extractSnippet(html, RegExp(<<"<", "h", "3">>, FALSE), 2)
                   ELSE NoSnippet
           IN  withSnippet(headingsCheck(html, RegExp(<<"<", "h", "1">>, FALSE)),
                           snippetInfo)
      [] rule.id = ID_seo_006 ->
           Check(html.canonical,
                 IF html.canonical
                 THEN "Canonical URL is specified."
                 ELSE "Missing canonical URL link.")
      [] OTHER -> defaultCheck(rule, html)

\* the second definitions of the ids the switch has two cases for, which
\* stand after the first in the text of the switch
laterDefinition(rule, html, headers) ==
    CASE rule.id = ID_html_002 ->
           Check(html.lang,
                 IF html.lang
                 THEN "HTML lang attribute is present."
                 ELSE "Missing lang attribute on <html> tag.")
      [] rule.id = ID_seo_006 ->
           Check(html.canonical,
                 IF html.canonical
                 THEN "Canonical URL link is present."
                 ELSE "Missing canonical URL.")
      [] rule.id = ID_seo_003 ->
           headingsCheck(html, RegExp(<<"<", "h", "1">>, TRUE))
      [] rule.id = ID_sec_002 ->
           LET csp == headerPresent(headers, "content-security-policy")
           IN  Check(csp,
                     IF csp
                     THEN "CSP header present: ..."
                     ELSE "Missing Content-Security-Policy header.")
      [] rule.id = ID_sec_003 ->
           LET xContentType == headerPresent(headers, "x-content-type-options")
               xFrame == headerPresent(headers, "x-frame-options")
               referrerPolicy == headerPresent(headers, "referrer-policy")
               securityHeaderCount ==
                   Cardinality({h \in {"x-content-type-options", "x-frame-options",
                                       "referrer-policy"} : headerPresent(headers, h)})
           IN  Check(securityHeaderCount >= 2,
                     "Security headers: X-Content-Type(" \o boolText(xContentType) \o
                     "), X-Frame(" \o boolText(xFrame) \o
                     "), Referrer-Policy(" \o boolText(referrerPolicy) \o ")")

(***************************************************************************)
(* analyzeWebsite: evaluation of the selected rules and the result.        *)
(***************************************************************************)
Summary(total, passed, failed, warning, info) ==
    [totalRules |-> total, passedRules |-> passed, failedRules |-> failed,
     warningRules |-> warning, infoRules |-> info]

\* the entry pushed to violations for a rule that did not pass
Violation(rule, check) ==
    [id |-> rule.id, category |-> rule.category, severity |-> rule.severity,
     details |-> check.details, source |-> rule.source]


\* countViolation without its final else: an 'info' failure is counted nowhere
countViolation_noInfo(summary, severity) ==
    IF severity = "error"
    THEN [summary EXCEPT !.failedRules = @ + 1]
    ELSE IF severity = "warning"
         THEN [summary EXCEPT !.warningRules = @ + 1]
         ELSE summary

\* the counter a failed rule increments
countViolation(summary, severity) ==
    IF severity = "error"
    THEN [summary EXCEPT !.failedRules = @ + 1]
    ELSE IF severity = "warning"
         THEN [summary EXCEPT !.warningRules = @ + 1]
         ELSE [summary EXCEPT !.infoRules = @ + 1]

\* checkOneRule that puts a new violation in front of the list
checkOneRule_prepends(acc, rule, html, headers, siteUrl) ==
    LET check == performRuleCheck(rule, html, headers, siteUrl)
    IN  IF ~check.passed
        THEN [violations |-> <<Violation(rule, check)>> \o acc.violations,
              summary |-> countViolation(acc.summary, rule.severity)]
        ELSE [violations |-> acc.violations,
              summary |-> [acc.summary EXCEPT !.passedRules = @ + 1]]

\* one iteration of rulesToCheck.forEach
checkOneRule(acc, rule, html, headers, siteUrl) ==
    LET check == performRuleCheck(rule, html, headers, siteUrl)
    IN  IF ~check.passed
        THEN [violations |-> Append(acc.violations, Violation(rule, check)),
              summary |-> countViolation(acc.summary, rule.severity)]
        ELSE [violations |-> acc.violations,
              summary |-> [acc.summary EXCEPT !.passedRules = @ + 1]]

\* rulesToCheck.forEach(...), from index i on. (x \in {e} names the value
\* of e, so that e is evaluated once.)
RECURSIVE forEachRule(_, _, _, _, _, _)
forEachRule(acc, rules, i, html, headers, siteUrl) ==
    IF i > Len(rules) THEN acc
    ELSE CHOOSE done \in
            { forEachRule(next, rules, i + 1, html, headers, siteUrl) :
                next \in {checkOneRule(acc, rules[i], html, headers, siteUrl)} } : TRUE

\* a JavaScript number that is an integer, and NaN
Num(n) == [nan |-> FALSE, val |-> n]
NaN == [nan |-> TRUE, val |-> 0]

\* Math.round((passedRules / totalRules) * 100): 0 / 0 is NaN and stays NaN;
\* otherwise the nearest integer, halves upwards
overallScoreOf(passedRules, totalRules) ==
    IF totalRules = 0 THEN NaN
    ELSE Num((200 * passedRules + totalRules) \div (2 * totalRules))

\* generateRecommendations: the categories in order of first occurrence
RECURSIVE categoriesOf(_)
categoriesOf(violations) ==
    IF violations = <<>> THEN <<>>
    ELSE LET c == violations[Len(violations)].category
         IN  CHOOSE categories \in
                { IF \E i \in 1..Len(front) : front[i] = c THEN front ELSE Append(front, c) :
                    front \in {categoriesOf(SubSeq(violations, 1, Len(violations) - 1))} } : TRUE

issuesIn(violations, category) ==
    Cardinality({i \in 1..Len(violations) : violations[i].category = category})


\* generateRecommendations without the final slice(0, 5)
generateRecommendations_noLimit(violations) ==
    CHOOSE recommendations \in
       { [i \in 1..Len(categories) |->
            <<"F", "i", "x", " ">> \o numberText(issuesIn(violations, categories[i])) \o
            <<" ">> \o categories[i] \o <<" ", "i", "s", "s", "u", "e", "(", "s", ")">>] :
           categories \in {categoriesOf(violations)} } : TRUE

generateRecommendations(violations) ==
    CHOOSE recommendations \in
       { SubSeq([i \in 1..Len(categories) |->
                   <<"F", "i", "x", " ">> \o numberText(issuesIn(violations, categories[i])) \o
                   <<" ">> \o categories[i] \o <<" ", "i", "s", "s", "u", "e", "(", "s", ")">>],
                1, IF Len(categories) < 5 THEN Len(categories) ELSE 5) :
           categories \in {categoriesOf(violations)} } : TRUE

\* the result returned after the fetch promise resolved
successResult(rules, html, headers, siteUrl) ==
    LET start == [violations |-> <<>>, summary |-> Summary(Len(rules), 0, 0, 0, 0)]
    IN  CHOOSE analysis \in
           { [siteName |-> extractSiteName(siteUrl),
              siteUrl |-> siteUrl,
              overallScore |-> overallScoreOf(done.summary.passedRules,
                                              done.summary.totalRules),
              violations |-> done.violations,
              recommendations |-> generateRecommendations(done.violations),
              summary |-> done.summary] :
               done \in {forEachRule(start, rules, 1, html, headers, siteUrl)} } : TRUE


\* failureSummary that forgets to count the synthetic violation
failureSummary_noFailed(rules) == Summary(Len(rules), 0, 0, 0, 0)

\* the summary of the catch block
failureSummary(rules) == Summary(Len(rules), 0, 1, 0, 0)


\* failureResult that keeps a generic text instead of error.message
failureResult_genericDetails(rules, siteUrl, message) ==
    [siteName |-> extractSiteName(siteUrl),
     siteUrl |-> siteUrl,
     overallScore |-> Num(0),
     violations |-> << [id |-> ID_connection_error, category |-> CAT_Connectivity,
                        severity |-> "error",
                        details |-> "Unable to access the website for analysis.",
                        source |-> undefined] >>,
     recommendations |-> REC_failure,
     summary |-> Summary(Len(rules), 0, 1, 0, 0)]

\* the result returned by the catch block
failureResult(rules, siteUrl, message) ==
    [siteName |-> extractSiteName(siteUrl),
     siteUrl |-> siteUrl,
     overallScore |-> Num(0),
     violations |-> << [id |-> ID_connection_error, category |-> CAT_Connectivity,
                        severity |-> "error", details |-> message,
                        source |-> undefined] >>,
     recommendations |-> REC_failure,
     summary |-> failureSummary(rules)]

(***************************************************************************)
(* State of one request to the endpoint.                                   *)
(***************************************************************************)
VARIABLES
    pc,            \* "idle": request received; "awaiting": analyzeWebsite waits
                   \* for the fetch promise; "returned": analyzeWebsite resolved
                   \* with result; "threw": analyzeWebsite rejected;
                   \* "responded": the endpoint has answered
    method,        \* req.method
    hasBody,       \* req.body is an object
    siteUrl,       \* req.body.siteUrl
    sourceFilter,  \* req.body.sourceFilter
    rulesToCheck,  \* the selected rules
    timeoutId,     \* the 10 s timer: "unset", "armed", "cleared", "fired"
    promise,       \* the fetch promise: state, value {html, headers}, error
    req,           \* the first request: "none", "sent", "streaming", "done"
    res,           \* the first response, once it arrived
    redirectReq,   \* the redirect request: "none", "sent", "streaming", "done"
    redirectRes,   \* the redirect response, once it arrived
    requests,      \* how many times each of the two URLs was requested
    result,        \* the AnalysisResult analyzeWebsite returned, if any
    httpStatus,    \* the status the endpoint answered with, 0 before
    uncaught,      \* an exception thrown inside a callback reached no handler
    \* performRuleCheck called on its own, and the two maintenance scripts
    probe,         \* the arguments of the call: rule, html, headers, siteUrl
    verdict,       \* what the call returned, once it has
    coverage,      \* the lists check-rules.js built, once it ran
    integrity,     \* the lists the source integrity check built, once it ran
    \* two calls of analyzeWebsite in one process
    calls,         \* for each call, its arguments and its local variables
    catalog,       \* the webDesignRules array of the module, shared by the calls
    \* the page of the browser
    component      \* the signals of WebInspectorComponent and its open subscriptions

vars == << pc, method, hasBody, siteUrl, sourceFilter, rulesToCheck, timeoutId,
           promise, req, res, redirectReq, redirectRes, requests, result,
           httpStatus, uncaught, probe, verdict, coverage, integrity, calls,
           catalog, component >>

toolVars == << probe, verdict, coverage, integrity, calls, catalog, component >>
callVars == << rulesToCheck, timeoutId, promise, req, res, redirectReq,
               redirectRes, requests, result, uncaught >>
requestVars == << method, hasBody, siteUrl, sourceFilter >>

\* WebInspectorComponent as constructed: isAnalyzing, analysisResult (null is
\* << >>) and error are its signals, snackBar the text of the bar it opened
\* last; started counts the calls of webAnalysisService.analyzeWebsite, and
\* subscriptions holds, for each call whose answer has not arrived, its
\* number and the URL it sent
NewComponent ==
    [isAnalyzing |-> FALSE, analysisResult |-> <<>>, error |-> "", snackBar |-> "",
     started |-> 0, subscriptions |-> {}]

Methods == {"OPTIONS", "GET", "POST"}
SiteUrls == {undefined, <<>>, URL_malformed, URL_http, URL_https}
\* const sourceFilter = this.selectedSource(): the id of a RuleSource
UISourceFilters ==
    {RULE_SOURCES[i].id :
        i \in 1..(IF NSources < Len(RULE_SOURCES) THEN NSources ELSE Len(RULE_SOURCES))}
SourceFilters ==
    {undefined, <<>>, STR_all, STR_sec, STR_OWASP, STR_mdn, STR_zzz, NUM_5}
        \cup UISourceFilters
StatusCodes == {200, 204, 301, 404, 500}
Locations == {<<>>, LOC_relative, LOC_http, LOC_https, LOC_invalid}

\* res.statusMessage, the reason phrase the server sent
statusMessage(statusCode) ==
    CASE statusCode = 200 -> "OK"
      [] statusCode = 204 -> "No Content"
      [] statusCode = 301 -> "Moved Permanently"
      [] statusCode = 404 -> "Not Found"
      [] statusCode = 500 -> "Internal Server Error"

MSG_timeout == "Request timeout after 10 seconds"
MSG_invalidUrl == "Invalid URL"
MSG_connection == "connect ECONNREFUSED"
MSG_aborted == "aborted"
httpErrorMessage(statusCode) ==
    "HTTP " \o ToString(statusCode) \o ": " \o statusMessage(statusCode)

NoPromise == [state |-> "none", value |-> <<>>, error |-> ""]
PendingPromise == [state |-> "pending", value |-> <<>>, error |-> ""]

\* resolve(value) and reject(error): only the first settles the promise
resolve(p, html, headers) ==
    IF p.state = "pending"
    THEN [state |-> "resolved", value |-> << [html |-> html, headers |-> headers] >>,
          error |-> ""]
    ELSE p

reject(p, message) ==
    IF p.state = "pending"
    THEN [state |-> "rejected", value |-> <<>>, error |-> message]
    ELSE p

\* clearTimeout(timeoutId)
clearTimeout(t) == IF t = "armed" THEN "cleared" ELSE t

Response(statusCode, location, html, headers) ==
    [statusCode |-> statusCode, location |-> location, html |-> html, headers |-> headers]

Init ==
    /\ pc = "idle"
    /\ method \in Methods
    /\ hasBody \in BOOLEAN
    /\ siteUrl \in SiteUrls
    /\ sourceFilter \in SourceFilters
    \* a request without a body has no properties, and only POST bodies are read
    /\ (method # "POST" => ~hasBody)
    /\ (~hasBody => siteUrl = undefined /\ sourceFilter = undefined)
    /\ rulesToCheck = <<>>
    /\ timeoutId = "unset"
    /\ promise = NoPromise
    /\ req = "none"
    /\ res = <<>>
    /\ redirectReq = "none"
    /\ redirectRes = <<>>
    /\ requests = [first |-> 0, redirect |-> 0]
    /\ result = <<>>
    /\ httpStatus = 0
    /\ uncaught = FALSE
    /\ probe = <<>>
    /\ verdict = <<>>
    /\ coverage = <<>>
    /\ integrity = <<>>
    /\ calls = <<>>
    /\ catalog = webDesignRules
    /\ component = NewComponent

(***************************************************************************)
(* The endpoint (analyze.js) up to its await, with the synchronous part of *)
(* analyzeWebsite.                                                         *)
(***************************************************************************)
\* OPTIONS: res.status(200).end()
handlerPreflight ==
    /\ pc = "idle" /\ method = "OPTIONS"
    /\ httpStatus' = 200 /\ pc' = "responded"
    /\ UNCHANGED << requestVars, toolVars, callVars >>

\* any other method than POST: 405
handlerMethodNotAllowed ==
    /\ pc = "idle" /\ method \notin {"OPTIONS", "POST"}
    /\ httpStatus' = 405 /\ pc' = "responded"
    /\ UNCHANGED << requestVars, toolVars, callVars >>

\* destructuring req.body throws when there is no body: the catch answers 500
handlerNoBody ==
    /\ pc = "idle" /\ method = "POST" /\ ~hasBody
    /\ httpStatus' = 500 /\ pc' = "responded"
    /\ UNCHANGED << requestVars, toolVars, callVars >>

\* if (!siteUrl): 400
handlerMissingUrl ==
    /\ pc = "idle" /\ method = "POST" /\ hasBody /\ ~truthy(siteUrl)
    /\ httpStatus' = 400 /\ pc' = "responded"
    /\ UNCHANGED << requestVars, toolVars, callVars >>

\* analyzeWebsite(siteUrl, sourceFilter) throws while it selects the rules
analyzeSelectionThrows ==
    /\ pc = "idle" /\ method = "POST" /\ hasBody /\ truthy(siteUrl)
    /\ selectionThrows(defaultFilter(sourceFilter))
    /\ pc' = "threw"
    /\ UNCHANGED << requestVars, toolVars, callVars, httpStatus >>

\* new URL(siteUrl) throws inside the try block: the catch block returns
analyzeInvalidUrl ==
    /\ pc = "idle" /\ method = "POST" /\ hasBody /\ truthy(siteUrl)
    /\ ~selectionThrows(defaultFilter(sourceFilter))
    /\ ~parseURL(siteUrl).ok
    /\ rulesToCheck' = selectRules(defaultFilter(sourceFilter))
    /\ result' = << failureResult(rulesToCheck', siteUrl, MSG_invalidUrl) >>
    /\ pc' = "returned"
    /\ UNCHANGED << requestVars, toolVars, timeoutId, promise, req, res, redirectReq,
                    redirectRes, requests, uncaught, httpStatus >>

\* the promise executor: arm the timer, send the request; then await
analyzeStartFetch ==
    /\ pc = "idle" /\ method = "POST" /\ hasBody /\ truthy(siteUrl)
    /\ ~selectionThrows(defaultFilter(sourceFilter))
    /\ parseURL(siteUrl).ok
    /\ rulesToCheck' = selectRules(defaultFilter(sourceFilter))
    /\ timeoutId' = "armed"
    /\ promise' = PendingPromise
    /\ req' = "sent"
    /\ requests' = [requests EXCEPT !.first = @ + 1]
    /\ pc' = "awaiting"
    /\ UNCHANGED << requestVars, toolVars, res, redirectReq, redirectRes, result, uncaught,
                    httpStatus >>

handler ==
    \/ handlerPreflight
    \/ handlerMethodNotAllowed
    \/ handlerNoBody
    \/ handlerMissingUrl
    \/ analyzeSelectionThrows
    \/ analyzeInvalidUrl
    \/ analyzeStartFetch

(***************************************************************************)
(* The callbacks of the fetch (website-analyzer.js, the promise executor). *)
(* A callback runs when the event loop is free: the continuation of an     *)
(* await (a microtask) runs before the next timer or network callback.     *)
(***************************************************************************)
microtaskPending ==
    \/ pc \in {"returned", "threw"}
    \/ pc = "awaiting" /\ promise.state \in {"resolved", "rejected"}

callbackMayRun == ~uncaught /\ ~microtaskPending

\* setTimeout(() => reject(new Error('Request timeout after 10 seconds')), 10000)
timeoutFires ==
    /\ callbackMayRun
    /\ timeoutId = "armed"
    /\ timeoutId' = "fired"
    /\ promise' = reject(promise, MSG_timeout)
    /\ UNCHANGED << pc, requestVars, toolVars, rulesToCheck, req, res, redirectReq,
                    redirectRes, requests, result, httpStatus, uncaught >>

isRedirect(statusCode, location) ==
    statusCode >= 300 /\ statusCode < 400 /\ truthy(location)

\* the response callback, for a 3xx response with a Location header
responseRedirect(statusCode, location) ==
    /\ isRedirect(statusCode, location)
    /\ res' = << Response(statusCode, location, HtmlEmpty, {}) >>
    /\ req' = "done"
    /\ LET redirectUrl == resolveURL(location, siteUrl)
       IN  IF ~redirectUrl.ok \/ getThrows(protocolModule(siteUrl), redirectUrl)
           THEN \* new URL(...) or protocol.get(...) throws inside the callback
                /\ uncaught' = TRUE
                /\ UNCHANGED << redirectReq, requests >>
           ELSE /\ redirectReq' = "sent"
                /\ requests' = [requests EXCEPT !.redirect = @ + 1]
                /\ UNCHANGED uncaught
    /\ UNCHANGED << promise, redirectRes >>

\* the status test of the response callback
statusRejected(statusCode) == statusCode # 200

\* the response callback, for a response that is not a followed redirect
\* and whose status is rejected
responseRejected(statusCode, location) ==
    /\ ~isRedirect(statusCode, location)
    /\ statusRejected(statusCode)
    /\ res' = << Response(statusCode, location, HtmlEmpty, {}) >>
    /\ req' = "done"
    /\ promise' = reject(promise, httpErrorMessage(statusCode))
    /\ UNCHANGED << redirectReq, redirectRes, requests, uncaught >>

\* the response callback, for a response whose body is read
responseAccepted(statusCode, location, html, headers) ==
    /\ ~isRedirect(statusCode, location)
    /\ ~statusRejected(statusCode)
    /\ res' = << Response(statusCode, location, html, headers) >>
    /\ req' = "streaming"
    /\ UNCHANGED << promise, redirectReq, redirectRes, requests, uncaught >>

\* protocol.get(siteUrl, ..., (res) => { ... })
response ==
    /\ callbackMayRun
    /\ req = "sent"
    /\ timeoutId' = clearTimeout(timeoutId)
    /\ \E statusCode \in StatusCodes, location \in Locations :
          \/ responseRedirect(statusCode, location)
          \/ responseRejected(statusCode, location)
          \/ \E html \in Bodies, headers \in HeaderSets :
                responseAccepted(statusCode, location, html, headers)
    /\ UNCHANGED << pc, requestVars, toolVars, rulesToCheck, result, httpStatus >>


\* requestError that sends the request again instead of giving up
requestError_retries ==
    /\ callbackMayRun
    /\ req = "sent"
    /\ timeoutId' = clearTimeout(timeoutId)
    /\ requests' = [requests EXCEPT !.first = @ + 1]
    /\ UNCHANGED << pc, requestVars, toolVars, rulesToCheck, promise, req, res, redirectReq,
                    redirectRes, result, httpStatus, uncaught >>

\* req.on('error', ...)
requestError ==
    /\ callbackMayRun
    /\ req = "sent"
    /\ timeoutId' = clearTimeout(timeoutId)
    /\ promise' = reject(promise, MSG_connection)
    /\ req' = "done"
    /\ UNCHANGED << pc, requestVars, toolVars, rulesToCheck, res, redirectReq, redirectRes,
                    requests, result, httpStatus, uncaught >>

\* res.on('end', () => resolve({ html: data, headers: res.headers }))
responseEnd ==
    /\ callbackMayRun
    /\ req = "streaming"
    /\ promise' = resolve(promise, res[1].html, res[1].headers)
    /\ req' = "done"
    /\ UNCHANGED << pc, requestVars, toolVars, rulesToCheck, timeoutId, res, redirectReq,
                    redirectRes, requests, result, httpStatus, uncaught >>

\* res.on('error', reject)
responseError ==
    /\ callbackMayRun
    /\ req = "streaming"
    /\ promise' = reject(promise, MSG_aborted)
    /\ req' = "done"
    /\ UNCHANGED << pc, requestVars, toolVars, rulesToCheck, timeoutId, res, redirectReq,
                    redirectRes, requests, result, httpStatus, uncaught >>

\* protocol.get(redirectUrl, ..., (redirectRes) => { ... }): the body is read
\* whatever the status
redirectResponse ==
    /\ callbackMayRun
    /\ redirectReq = "sent"
    /\ \E statusCode \in StatusCodes, location \in {<<>>, LOC_relative},
          html \in Bodies, headers \in HeaderSets :
          redirectRes' = << Response(statusCode, location, html, headers) >>
    /\ redirectReq' = "streaming"
    /\ UNCHANGED << pc, requestVars, toolVars, rulesToCheck, timeoutId, promise, req, res,
                    requests, result, httpStatus, uncaught >>

\* .on('error', reject) of the redirect request
redirectRequestError ==
    /\ callbackMayRun
    /\ redirectReq = "sent"
    /\ promise' = reject(promise, MSG_connection)
    /\ redirectReq' = "done"
    /\ UNCHANGED << pc, requestVars, toolVars, rulesToCheck, timeoutId, req, res, redirectRes,
                    requests, result, httpStatus, uncaught >>

\* redirectRes.on('end', () => resolve({ html: data, headers: redirectRes.headers }))
redirectEnd ==
    /\ callbackMayRun
    /\ redirectReq = "streaming"
    /\ promise' = resolve(promise, redirectRes[1].html, redirectRes[1].headers)
    /\ redirectReq' = "done"
    /\ UNCHANGED << pc, requestVars, toolVars, rulesToCheck, timeoutId, req, res, redirectRes,
                    requests, result, httpStatus, uncaught >>

\* redirectRes.on('error', reject)
redirectError ==
    /\ callbackMayRun
    /\ redirectReq = "streaming"
    /\ promise' = reject(promise, MSG_aborted)
    /\ redirectReq' = "done"
    /\ UNCHANGED << pc, requestVars, toolVars, rulesToCheck, timeoutId, req, res, redirectRes,
                    requests, result, httpStatus, uncaught >>

(***************************************************************************)
(* After the await.                                                        *)
(***************************************************************************)
\* the promise resolved: evaluate the rules and return the result
analyzeEvaluate ==
    /\ ~uncaught
    /\ pc = "awaiting" /\ promise.state = "resolved"
    /\ result' = << successResult(rulesToCheck, promise.value[1].html,
                                  promise.value[1].headers, siteUrl) >>
    /\ pc' = "returned"
    /\ UNCHANGED << requestVars, toolVars, rulesToCheck, timeoutId, promise, req, res,
                    redirectReq, redirectRes, requests, httpStatus, uncaught >>

\* the promise rejected: the catch block returns the failure result
analyzeCatch ==
    /\ ~uncaught
    /\ pc = "awaiting" /\ promise.state = "rejected"
    /\ result' = << failureResult(rulesToCheck, siteUrl, promise.error) >>
    /\ pc' = "returned"
    /\ UNCHANGED << requestVars, toolVars, rulesToCheck, timeoutId, promise, req, res,
                    redirectReq, redirectRes, requests, httpStatus, uncaught >>

\* the endpoint after its await: res.status(200).json(result)
handlerRespond ==
    /\ ~uncaught
    /\ pc = "returned"
    /\ httpStatus' = 200
    /\ pc' = "responded"
    /\ UNCHANGED << requestVars, toolVars, callVars >>

\* the endpoint's catch block: res.status(500).json(...)
handlerCatch ==
    /\ ~uncaught
    /\ pc = "threw"
    /\ httpStatus' = 500
    /\ pc' = "responded"
    /\ UNCHANGED << requestVars, toolVars, callVars >>

Next ==
    \/ handler
    \/ timeoutFires
    \/ response
    \/ requestError
    \/ responseEnd
    \/ responseError
    \/ redirectResponse
    \/ redirectRequestError
    \/ redirectEnd
    \/ redirectError
    \/ analyzeEvaluate
    \/ analyzeCatch
    \/ handlerRespond
    \/ handlerCatch

Spec == Init /\ [][Next]_vars

\* The timer and the program's own continuations run when they can; the
\* server and the network owe nothing.
FairSpec ==
    /\ Spec
    /\ WF_vars(handler)
    /\ WF_vars(timeoutFires)
    /\ WF_vars(analyzeEvaluate)
    /\ WF_vars(analyzeCatch)
    /\ WF_vars(handlerRespond)
    /\ WF_vars(handlerCatch)

(***************************************************************************)
(* The same request with other URLs: host names with 'www.' in front and   *)
(* in the middle, and a scheme written in capitals.                        *)
(***************************************************************************)

\* 'http://www.a.io/', 'https://a.www.io/' and 'HTTPS://a.io/' beside the others
UrlSiteUrls ==
    {undefined, URL_malformed, URL_http,
     <<"h", "t", "t", "p", ":", "/", "/", "w", "w", "w", ".", "a", ".", "i", "o", "/">>,
     <<"h", "t", "t", "p", "s", ":", "/", "/", "a", ".", "w", "w", "w", ".", "i", "o", "/">>,
     <<"H", "T", "T", "P", "S", ":", "/", "/", "a", ".", "i", "o", "/">>}
UrlSourceFilters == {undefined, STR_sec, NUM_5}

UrlInit ==
    /\ pc = "idle"
    /\ method \in Methods
    /\ hasBody \in BOOLEAN
    /\ siteUrl \in UrlSiteUrls
    /\ sourceFilter \in UrlSourceFilters
    \* a request without a body has no properties, and only POST bodies are read
    /\ (method # "POST" => ~hasBody)
    /\ (~hasBody => siteUrl = undefined /\ sourceFilter = undefined)
    /\ rulesToCheck = <<>>
    /\ timeoutId = "unset"
    /\ promise = NoPromise
    /\ req = "none"
    /\ res = <<>>
    /\ redirectReq = "none"
    /\ redirectRes = <<>>
    /\ requests = [first |-> 0, redirect |-> 0]
    /\ result = <<>>
    /\ httpStatus = 0
    /\ uncaught = FALSE
    /\ probe = <<>>
    /\ verdict = <<>>
    /\ coverage = <<>>
    /\ integrity = <<>>
    /\ calls = <<>>
    /\ catalog = webDesignRules
    /\ component = NewComponent

UrlSpec == UrlInit /\ [][Next]_vars

(***************************************************************************)
(* performRuleCheck as a function, and the two maintenance scripts:        *)
(* check-rules.js (which catalog rules have a case in the switch) and the  *)
(* source integrity check (which rule ids RULE_SOURCES and the catalog     *)
(* share). No request is in progress.                                      *)
(***************************************************************************)
\* rules that are not in the catalog and have no case in the switch
UncataloguedRules == {
    Rule(<<"c", "u", "s", "t", "o", "m", "-", "0", "0", "1">>, "Avoid Blocking Scripts",
         CAT_JavaScript, "warning", SRC_MDN_Web_Docs),
    Rule(<<"c", "u", "s", "t", "o", "m", "-", "0", "0", "2">>, "Budget Script Cost",
         <<"J", "a", "v", "a", "S", "c", "r", "i", "p", "t", " ", "P", "e", "r", "f", "o", "r", "m", "a", "n", "c", "e">>, "warning", SRC_Google_Web_dev),
    Rule(<<"c", "u", "s", "t", "o", "m", "-", "0", "0", "3">>, "Keep Pages Light",
         <<"P", "e", "r", "f", "o", "r", "m", "a", "n", "c", "e", " ", "(", "C", "o", "r", "e", " ", "W", "e", "b", " ", "V", "i", "t", "a", "l", "s", ")">>, "warning", SRC_Google_Web_dev),
    Rule(<<"c", "u", "s", "t", "o", "m", "-", "0", "0", "4">>, "Accessible And Fast",
         <<"A", "C", "C", "E", "S", "S", "I", "B", "I", "L", "I", "T", "Y", " ", "a", "n", "d", " ", "P", "E", "R", "F", "O", "R", "M", "A", "N", "C", "E">>, "warning", SRC_Google_Web_dev),
    Rule(<<"c", "u", "s", "t", "o", "m", "-", "0", "0", "5">>, "Label Controls",
         CAT_Accessibility, "error", SRC_WCAG_1_1_1),
    Rule(<<"c", "u", "s", "t", "o", "m", "-", "0", "0", "6">>, "Show System Status",
         <<"U", "s", "e", "r", " ", "E", "x", "p", "e", "r", "i", "e", "n", "c", "e">>, "info", SRC_MDN_Web_Docs) }

\* further rules of the catalog (web-design-rules.js)
FurtherCatalogRules == {
    Rule(ID_seo_001, "Use Descriptive Page Titles",
         <<"S", "E", "O", " ", "(", "S", "e", "a", "r", "c", "h", " ",
            "E", "n", "g", "i", "n", "e", " ", "O", "p", "t", "i", "m",
            "i", "z", "a", "t", "i", "o", "n", ")">>,
         "error",
         <<"G", "o", "o", "g", "l", "e", " ", "S", "e", "a", "r", "c",
            "h", " ", "C", "e", "n", "t", "r", "a", "l">>),
    Rule(ID_seo_003, "Use Proper Heading Hierarchy",
         <<"S", "E", "O", " ", "(", "S", "e", "a", "r", "c", "h", " ",
            "E", "n", "g", "i", "n", "e", " ", "O", "p", "t", "i", "m",
            "i", "z", "a", "t", "i", "o", "n", ")">>,
         "warning",
         <<"M", "D", "N", " ", "W", "e", "b", " ", "D", "o", "c", "s">>),
    Rule(ID_seo_006, "Use Canonical URLs",
         <<"S", "E", "O", " ", "(", "S", "e", "a", "r", "c", "h", " ",
            "E", "n", "g", "i", "n", "e", " ", "O", "p", "t", "i", "m",
            "i", "z", "a", "t", "i", "o", "n", ")">>,
         "warning",
         <<"G", "o", "o", "g", "l", "e", " ", "S", "e", "a", "r", "c",
            "h", " ", "C", "e", "n", "t", "r", "a", "l">>),
    Rule(<<"p", "e", "r", "f", "-", "0", "0", "1">>, "Minimize Page Load Time",
         <<"P", "e", "r", "f", "o", "r", "m", "a", "n", "c", "e", " ",
            "(", "C", "o", "r", "e", " ", "W", "e", "b", " ", "V", "i",
            "t", "a", "l", "s", ")">>,
         "warning",
         <<"G", "o", "o", "g", "l", "e", " ", "P", "a", "g", "e", "S",
            "p", "e", "e", "d", " ", "I", "n", "s", "i", "g", "h", "t", "s">>),
    Rule(<<"p", "e", "r", "f", "-", "0", "0", "2">>, "Optimize Images for Web",
         <<"P", "e", "r", "f", "o", "r", "m", "a", "n", "c", "e", " ",
            "(", "C", "o", "r", "e", " ", "W", "e", "b", " ", "V", "i",
            "t", "a", "l", "s", ")">>,
         "warning",
         <<"G", "o", "o", "g", "l", "e", " ", "W", "e", "b", " ", "F",
            "u", "n", "d", "a", "m", "e", "n", "t", "a", "l", "s">>),
    Rule(<<"p", "e", "r", "f", "-", "0", "0", "3">>, "Minimize Render-Blocking Resources",
         <<"P", "e", "r", "f", "o", "r", "m", "a", "n", "c", "e", " ",
            "(", "C", "o", "r", "e", " ", "W", "e", "b", " ", "V", "i",
            "t", "a", "l", "s", ")">>,
         "warning",
         <<"G", "o", "o", "g", "l", "e", " ", "W", "e", "b", ".", "d",
            "e", "v">>),
    Rule(<<"c", "w", "v", "-", "0", "0", "1">>, "Optimize Largest Contentful Paint (LCP)",
         <<"P", "e", "r", "f", "o", "r", "m", "a", "n", "c", "e", " ",
            "(", "C", "o", "r", "e", " ", "W", "e", "b", " ", "V", "i",
            "t", "a", "l", "s", ")">>,
         "error",
         <<"G", "o", "o", "g", "l", "e", " ", "C", "o", "r", "e", " ",
            "W", "e", "b", " ", "V", "i", "t", "a", "l", "s", " ", "-",
            " ", "L", "C", "P">>),
    Rule(<<"c", "w", "v", "-", "0", "0", "3">>, "Optimize First Input Delay (FID) / Interaction to Next Paint (INP)",
         <<"P", "e", "r", "f", "o", "r", "m", "a", "n", "c", "e", " ",
            "(", "C", "o", "r", "e", " ", "W", "e", "b", " ", "V", "i",
            "t", "a", "l", "s", ")">>,
         "warning",
         <<"G", "o", "o", "g", "l", "e", " ", "C", "o", "r", "e", " ",
            "W", "e", "b", " ", "V", "i", "t", "a", "l", "s", " ", "-",
            " ", "F", "I", "D", "/", "I", "N", "P">>),
    Rule(<<"j", "s", "-", "0", "0", "1">>, "Minimize JavaScript Execution Time",
         <<"J", "a", "v", "a", "S", "c", "r", "i", "p", "t", " ", "B",
            "e", "s", "t", " ", "P", "r", "a", "c", "t", "i", "c", "e", "s">>,
         "warning",
         <<"G", "o", "o", "g", "l", "e", " ", "L", "i", "g", "h", "t",
            "h", "o", "u", "s", "e">>),
    Rule(<<"j", "s", "-", "0", "0", "2">>, "Avoid Render-Blocking JavaScript",
         <<"J", "a", "v", "a", "S", "c", "r", "i", "p", "t", " ", "B",
            "e", "s", "t", " ", "P", "r", "a", "c", "t", "i", "c", "e", "s">>,
         "warning",
         <<"M", "D", "N", " ", "W", "e", "b", " ", "D", "o", "c", "s">>) }

\* rules with ids the switch has a case for and the catalog has no rule for
LabelledRules == {
    Rule(<<"l", "i", "g", "h", "t", "h", "o", "u", "s", "e", "-", "0", "0", "1">>, "Serve Images In Modern Formats",
         <<"P", "e", "r", "f", "o", "r", "m", "a", "n", "c", "e", " ",
            "(", "C", "o", "r", "e", " ", "W", "e", "b", " ", "V", "i",
            "t", "a", "l", "s", ")">>,
         "warning", SRC_Google_Web_dev),
    Rule(<<"l", "i", "g", "h", "t", "h", "o", "u", "s", "e", "-", "0", "0", "2">>, "Eliminate Render-Blocking Resources",
         <<"P", "e", "r", "f", "o", "r", "m", "a", "n", "c", "e", " ",
            "(", "C", "o", "r", "e", " ", "W", "e", "b", " ", "V", "i",
            "t", "a", "l", "s", ")">>,
         "warning", SRC_Google_Web_dev),
    Rule(<<"p", "w", "a", "-", "0", "0", "3">>, "Serve The App Over HTTPS",
         <<"S", "e", "c", "u", "r", "i", "t", "y">>,
         "warning", SRC_Google_Web_dev) }

\* the rules whose tests the model computes on the text of the body
TextRuleIds == {ID_seo_001, ID_seo_003}

ProbeRules ==
    elementsOfCatalog \cup UncataloguedRules \cup FurtherCatalogRules \cup LabelledRules
ProbeBodies ==
    Bodies \cup {HtmlNineteenScripts, HtmlTwentyScripts, HtmlHeavy} \cup TextBodies

requestIdle ==
    /\ pc = "idle"
    /\ method = "GET"
    /\ hasBody = FALSE
    /\ siteUrl = undefined
    /\ sourceFilter = undefined
    /\ rulesToCheck = <<>>
    /\ timeoutId = "unset"
    /\ promise = NoPromise
    /\ req = "none"
    /\ res = <<>>
    /\ redirectReq = "none"
    /\ redirectRes = <<>>
    /\ requests = [first |-> 0, redirect |-> 0]
    /\ result = <<>>
    /\ httpStatus = 0
    /\ uncaught = FALSE

DispatchInit ==
    /\ requestIdle
    /\ probe \in [rule : ProbeRules, html : ProbeBodies, headers : ProbeHeaderSets,
                  siteUrl : {URL_http, URL_https}]
    \* the rules that read the text are called on the bodies given by their
    \* text, the others on the others
    /\ (probe.rule.id \in TextRuleIds) <=> (probe.html \in TextBodies)
    /\ verdict = <<>>
    /\ coverage = <<>>
    /\ integrity = <<>>
    /\ calls = <<>>
    /\ catalog = webDesignRules
    /\ component = NewComponent

\* performRuleCheck(rule, html, headers, siteUrl)
dispatch ==
    /\ verdict = <<>>
    /\ verdict' = << performRuleCheck(probe.rule, probe.html, probe.headers,
                                      probe.siteUrl) >>
    /\ UNCHANGED << pc, requestVars, callVars, httpStatus, probe, coverage, integrity,
                    calls, catalog, component >>

\* new RegExp(`case\\s+['"]${rule.id}['"]`, 'i').test(analyzerCode)
\* (the labels, lower-cased: the expression is case-insensitive)
analyzerCodeCases == {toLowerCase(caseLabels[k]) : k \in 1..Len(caseLabels)}
hasCase(id) == toLowerCase(id) \in analyzerCodeCases

\* check-rules.js: the catalog rules with and without a case in the switch
checkRules ==
    /\ coverage = <<>>
    /\ LET isImplemented(id) == hasCase(id)
           isNotImplemented(id) == ~hasCase(id)
       IN  coverage' = << [implemented |-> SelectSeq(catalogRuleIds, isImplemented),
                           notImplemented |->
                               SelectSeq(catalogRuleIds, isNotImplemented)] >>
    /\ UNCHANGED << pc, requestVars, callVars, httpStatus, probe, verdict, integrity,
                    calls, catalog, component >>

\* allReferencedRuleIds from the first ruleIds list only (a match without /g)
allReferencedRuleIds_firstMatch ==
    {RULE_SOURCES[1].ruleIds[k] : k \in 1..Len(RULE_SOURCES[1].ruleIds)}

\* the ids in the ruleIds lists of RULE_SOURCES, and the ids of the catalog
allReferencedRuleIds ==
    UNION { {RULE_SOURCES[s].ruleIds[k] : k \in 1..Len(RULE_SOURCES[s].ruleIds)} :
              s \in 1..Len(RULE_SOURCES) }
actualRuleIds == {catalogRuleIds[k] : k \in 1..Len(catalogRuleIds)}

\* the source integrity check: referenced ids the catalog lacks, catalog ids
\* no source references
validateSources ==
    /\ integrity = <<>>
    /\ integrity' = << [missingRules |-> allReferencedRuleIds \ actualRuleIds,
                        orphanedRules |-> actualRuleIds \ allReferencedRuleIds] >>
    /\ UNCHANGED << pc, requestVars, callVars, httpStatus, probe, verdict, coverage,
                    calls, catalog, component >>

DispatchNext ==
    \/ dispatch
    \/ checkRules
    \/ validateSources

DispatchSpec == DispatchInit /\ [][DispatchNext]_vars

(***************************************************************************)
(* Two calls of analyzeWebsite in one process. Each call has its own       *)
(* arguments and local variables (violations, summary, the promise, the    *)
(* requests); the module shares the webDesignRules array. The callbacks of *)
(* the two calls run one at a time, in any order; the continuation of an   *)
(* await runs before the next callback.                                    *)
(***************************************************************************)
\* the variables of the single request and of the tools, which stay as they are
singleVars ==
    << pc, requestVars, callVars, httpStatus, probe, verdict, coverage, integrity,
       component >>

Calls == {1, 2}
CallUrls == {URL_http, URL_https}
CallFilters == {STR_all, STR_mdn}
CallStatusCodes == {200, 301}
CallBodies == {HtmlImages, HtmlComplete}
CallHeaderSets == { {"content-security-policy"} }
CallLocations == {<<>>, LOC_relative, LOC_https}

\* a call that has not run yet
NewCall(url, filter) ==
    [pc |-> "idle", siteUrl |-> url, sourceFilter |-> filter, rulesToCheck |-> <<>>,
     timeoutId |-> "unset", promise |-> NoPromise, req |-> "none", res |-> <<>>,
     redirectReq |-> "none", redirectRes |-> <<>>, result |-> <<>>]

TwoCallInit ==
    /\ requestIdle
    /\ probe = <<>>
    /\ verdict = <<>>
    /\ coverage = <<>>
    /\ integrity = <<>>
    /\ calls \in [Calls -> {NewCall(url, filter) : url \in CallUrls, filter \in CallFilters}]
    \* the two calls analyse different sites
    /\ calls[1].siteUrl # calls[2].siteUrl
    /\ catalog = webDesignRules
    /\ component = NewComponent

\* the continuation of some call's await is due
continuationDue ==
    \E c \in Calls : calls[c].pc = "awaiting" /\ calls[c].promise.state # "pending"

\* an exception thrown inside a callback reached no handler: the process has
\* ended, and no callback of any call runs any more
processDown == \E c \in DOMAIN calls : calls[c].pc = "crashed"

\* a callback may run
callbackDue == ~continuationDue /\ ~processDown

\* the synchronous part of analyzeWebsite up to its await
callStart(c) ==
    /\ callbackDue
    /\ calls[c].pc = "idle"
    /\ LET filter == calls[c].sourceFilter
           selected == IF truthy(filter) /\ filter # STR_all
                       THEN filterRules(catalog, filter)
                       ELSE catalog
       IN  calls' = [calls EXCEPT ![c] =
                       [@ EXCEPT !.rulesToCheck = selected, !.timeoutId = "armed",
                                 !.promise = PendingPromise, !.req = "sent",
                                 !.pc = "awaiting"]]
    /\ UNCHANGED << catalog, singleVars >>

\* the timer of a call fires
callTimeout(c) ==
    /\ callbackDue
    /\ calls[c].timeoutId = "armed"
    /\ calls' = [calls EXCEPT ![c] =
                   [@ EXCEPT !.timeoutId = "fired",
                             !.promise = reject(@, MSG_timeout)]]
    /\ UNCHANGED << catalog, singleVars >>

\* the response callback of a call
callResponse(c) ==
    /\ callbackDue
    /\ calls[c].req = "sent"
    /\ \E statusCode \in CallStatusCodes, location \in CallLocations,
          html \in CallBodies, headers \in CallHeaderSets :
          calls' = [calls EXCEPT ![c] =
              IF isRedirect(statusCode, location)
                 /\ getThrows(protocolModule(calls[c].siteUrl),
                              resolveURL(location, calls[c].siteUrl))
              THEN \* protocol.get(redirectUrl) throws inside the callback
                   [@ EXCEPT !.timeoutId = clearTimeout(@),
                             !.res = << Response(statusCode, location, HtmlEmpty, {}) >>,
                             !.req = "done", !.pc = "crashed"]
              ELSE IF isRedirect(statusCode, location)
              THEN [@ EXCEPT !.timeoutId = clearTimeout(@),
                             !.res = << Response(statusCode, location, HtmlEmpty, {}) >>,
                             !.req = "done", !.redirectReq = "sent"]
              ELSE IF statusRejected(statusCode)
              THEN [@ EXCEPT !.timeoutId = clearTimeout(@),
                             !.res = << Response(statusCode, location, HtmlEmpty, {}) >>,
                             !.req = "done",
                             !.promise = reject(@, httpErrorMessage(statusCode))]
              ELSE [@ EXCEPT !.timeoutId = clearTimeout(@),
                             !.res = << Response(statusCode, location, html, headers) >>,
                             !.req = "streaming"]]
    /\ UNCHANGED << catalog, singleVars >>

\* the request of a call fails
callRequestError(c) ==
    /\ callbackDue
    /\ calls[c].req = "sent"
    /\ calls' = [calls EXCEPT ![c] =
                   [@ EXCEPT !.timeoutId = clearTimeout(@), !.req = "done",
                             !.promise = reject(@, MSG_connection)]]
    /\ UNCHANGED << catalog, singleVars >>

\* the body of the first response ends, or breaks off
callResponseEnd(c) ==
    /\ callbackDue
    /\ calls[c].req = "streaming"
    /\ \/ calls' = [calls EXCEPT ![c] =
                      [@ EXCEPT !.req = "done",
                                !.promise = resolve(@, calls[c].res[1].html,
                                                    calls[c].res[1].headers)]]
       \/ calls' = [calls EXCEPT ![c] =
                      [@ EXCEPT !.req = "done", !.promise = reject(@, MSG_aborted)]]
    /\ UNCHANGED << catalog, singleVars >>

\* the response of the redirect request arrives, or the request fails
callRedirectResponse(c) ==
    /\ callbackDue
    /\ calls[c].redirectReq = "sent"
    /\ \/ \E statusCode \in CallStatusCodes, html \in CallBodies,
             headers \in CallHeaderSets :
             calls' = [calls EXCEPT ![c] =
                         [@ EXCEPT !.redirectReq = "streaming",
                                   !.redirectRes =
                                       << Response(statusCode, <<>>, html, headers) >>]]
       \/ calls' = [calls EXCEPT ![c] =
                      [@ EXCEPT !.redirectReq = "done",
                                !.promise = reject(@, MSG_connection)]]
    /\ UNCHANGED << catalog, singleVars >>

\* the body of the redirect response ends, or breaks off
callRedirectEnd(c) ==
    /\ callbackDue
    /\ calls[c].redirectReq = "streaming"
    /\ \/ calls' = [calls EXCEPT ![c] =
                      [@ EXCEPT !.redirectReq = "done",
                                !.promise = resolve(@, calls[c].redirectRes[1].html,
                                                    calls[c].redirectRes[1].headers)]]
       \/ calls' = [calls EXCEPT ![c] =
                      [@ EXCEPT !.redirectReq = "done",
                                !.promise = reject(@, MSG_aborted)]]
    /\ UNCHANGED << catalog, singleVars >>


\* after the await: the rules are evaluated and the result returned, or the
\* catch block returns the failure result
callReturn(c) ==
    /\ calls[c].pc = "awaiting"
    /\ calls[c].promise.state # "pending"
    /\ calls' = [calls EXCEPT ![c] =
          [@ EXCEPT !.pc = "returned",
                    !.result =
                        IF calls[c].promise.state = "resolved"
                        THEN << successResult(calls[c].rulesToCheck,
                                              calls[c].promise.value[1].html,
                                              calls[c].promise.value[1].headers,
                                              calls[c].siteUrl) >>
                        ELSE << failureResult(calls[c].rulesToCheck, calls[c].siteUrl,
                                              calls[c].promise.error) >>]]
    /\ UNCHANGED << catalog, singleVars >>

TwoCallNext ==
    \/ \E c \in Calls : callStart(c)
    \/ \E c \in Calls : callTimeout(c)
    \/ \E c \in Calls : callResponse(c)
    \/ \E c \in Calls : callRequestError(c)
    \/ \E c \in Calls : callResponseEnd(c)
    \/ \E c \in Calls : callRedirectResponse(c)
    \/ \E c \in Calls : callRedirectEnd(c)
    \/ \E c \in Calls : callReturn(c)

TwoCallSpec == TwoCallInit /\ [][TwoCallNext]_vars

(***************************************************************************)
(* Vocabulary of the properties.                                           *)
(***************************************************************************)
\* analyzeWebsite has returned an AnalysisResult
Returned == result # <<>>

\* the result was built from fetched content
FetchSucceeded == Returned /\ promise.state = "resolved"

\* the result was built by the catch block after the fetch promise rejected
FetchFailed == Returned /\ promise.state = "rejected"

\* the rules the filter of this request selects, counted on the catalog
\* directly
matchesFilter(rule, filter) ==
    \/ startsWith(rule.id, filter)
    \/ includes(toLowerCase(rule.source), toLowerCase(filter))

selectedIndexes ==
    LET filter == defaultFilter(sourceFilter)
    IN  IF filter = STR_all \/ filter = <<>>
        THEN 1..Len(webDesignRules)
        ELSE {i \in 1..Len(webDesignRules) : matchesFilter(webDesignRules[i], filter)}

selectedCount == Cardinality(selectedIndexes)

sumOfCounts(summary) ==
    summary.passedRules + summary.failedRules + summary.warningRules + summary.infoRules

withSeverity(violations, severities) ==
    Cardinality({i \in 1..Len(violations) : violations[i].severity \in severities})

\* the rule ids of the violations
violationIds(violations) == {violations[i].id : i \in 1..Len(violations)}

\* the verdict of the i-th catalog rule on the content the promise resolved with
passesOnFetched(i) ==
    performRuleCheck(webDesignRules[i], promise.value[1].html,
                     promise.value[1].headers, siteUrl).passed

(***************************************************************************)
(* WebInspectorComponent.analyzeWebsite in the browser: every call         *)
(* subscribes to its own HTTP POST; nothing unsubscribes an earlier one.   *)
(***************************************************************************)
\* analyses one page session starts at most
MaxAnalyses == 3
\* what the user may have selected or typed: nothing, a text that is no
\* URL, and two sites
UrlsToAnalyze == {<<>>, URL_malformed, URL_http, URL_https}
\* err.error?.message || err.message of a failed POST
ErrorMessages == {"Site URL is required", "Http failure response"}

\* the answer of the endpoint to the analysis with a number
AnalysisOf(subscription) ==
    [siteUrl |-> subscription.urlToAnalyze, analysis |-> subscription.analysis]

\* analyzeWebsite(), when it returns before it sends anything
uiAnalyzeRefused ==
    \E urlToAnalyze \in UrlsToAnalyze :
        /\ ~truthy(urlToAnalyze) \/ ~parseURL(urlToAnalyze).ok
        /\ component' =
              [component EXCEPT !.snackBar =
                  IF ~truthy(urlToAnalyze)
                  THEN "Please select a website or enter a custom URL"
                  ELSE "Please enter a valid URL (e.g., https://example.com)"]
        /\ UNCHANGED << pc, requestVars, callVars, httpStatus, probe, verdict, coverage,
                        integrity, calls, catalog >>

\* analyzeWebsite() with a URL: the signals are reset and the POST is sent
uiAnalyzeWebsite ==
    \E urlToAnalyze \in UrlsToAnalyze :
        /\ truthy(urlToAnalyze) /\ parseURL(urlToAnalyze).ok
        /\ component.started < MaxAnalyses
        /\ component' =
              [component EXCEPT
                  !.isAnalyzing = TRUE,
                  !.error = "",
                  !.analysisResult = <<>>,
                  !.started = @ + 1,
                  !.subscriptions = @ \cup {[analysis |-> component.started + 1,
                                             urlToAnalyze |-> urlToAnalyze]}]
        /\ UNCHANGED << pc, requestVars, callVars, httpStatus, probe, verdict, coverage,
                        integrity, calls, catalog >>

\* next: (result) => { ... }
uiNext ==
    \E subscription \in component.subscriptions :
        /\ component' =
              [component EXCEPT
                  !.analysisResult = << AnalysisOf(subscription) >>,
                  !.isAnalyzing = FALSE,
                  !.snackBar = "Analysis completed successfully",
                  !.subscriptions = @ \ {subscription}]
        /\ UNCHANGED << pc, requestVars, callVars, httpStatus, probe, verdict, coverage,
                        integrity, calls, catalog >>

\* error: (err) => { ... }
uiError ==
    \E subscription \in component.subscriptions, message \in ErrorMessages :
        /\ component' =
              [component EXCEPT
                  !.error = "Failed to analyze website: " \o message,
                  !.isAnalyzing = FALSE,
                  !.snackBar = "Analysis failed",
                  !.subscriptions = @ \ {subscription}]
        /\ UNCHANGED << pc, requestVars, callVars, httpStatus, probe, verdict, coverage,
                        integrity, calls, catalog >>

UiInit ==
    /\ requestIdle
    /\ probe = <<>>
    /\ verdict = <<>>
    /\ coverage = <<>>
    /\ integrity = <<>>
    /\ calls = <<>>
    /\ catalog = webDesignRules
    /\ component = NewComponent

UiNext ==
    \/ uiAnalyzeRefused
    \/ uiAnalyzeWebsite
    \/ uiNext
    \/ uiError

UiSpec == UiInit /\ [][UiNext]_vars

(***************************************************************************)
(* C1                                                                      *)
(***************************************************************************)
\* C1 (as stated): in every AnalysisResult analyzeWebsite returns, for any
\* source filter and any fetch outcome, passedRules + failedRules +
\* warningRules + infoRules = totalRules, and totalRules is the number of
\* rules selected for the run. (Stated for the runs that attempted the fetch.)
C1_SumEqualsTotalAlways ==
    (Returned /\ requests.first > 0) =>
        /\ sumOfCounts(result[1].summary) = result[1].summary.totalRules
        /\ result[1].summary.totalRules = selectedCount

\* C1 (amended): totalRules is the number of selected rules in every result;
\* the four counts add up to totalRules in every result built after a
\* successful fetch, and to 1 (the synthetic violation) in every failure
\* result.
C1_SumEqualsTotalAfterFetch ==
    Returned =>
        /\ result[1].summary.totalRules = selectedCount
        /\ FetchSucceeded =>
              sumOfCounts(result[1].summary) = result[1].summary.totalRules
        /\ ~FetchSucceeded => sumOfCounts(result[1].summary) = 1

\* a successful run over several rules with passed and failed rules of every
\* severity
C1_Witness ==
    /\ FetchSucceeded
    /\ result[1].summary.totalRules > 2
    /\ result[1].summary.passedRules > 0
    /\ result[1].summary.failedRules > 0
    /\ result[1].summary.warningRules > 0
    /\ result[1].summary.infoRules > 0

(***************************************************************************)
(* C2                                                                      *)
(***************************************************************************)
\* C2: in every AnalysisResult the number of violations is failedRules +
\* warningRules + infoRules; failedRules counts the violations of severity
\* 'error', warningRules those of severity 'warning', infoRules all others;
\* a rule that passed is counted in passedRules and has no violation.
C2_ViolationsMatchCounts ==
    Returned =>
        LET r == result[1]
        IN  /\ Len(r.violations) =
                 r.summary.failedRules + r.summary.warningRules + r.summary.infoRules
            /\ r.summary.failedRules = withSeverity(r.violations, {"error"})
            /\ r.summary.warningRules = withSeverity(r.violations, {"warning"})
            /\ r.summary.infoRules =
                 Len(r.violations) - withSeverity(r.violations, {"error", "warning"})
            /\ FetchSucceeded =>
                 /\ r.summary.passedRules =
                      Cardinality({i \in selectedIndexes : passesOnFetched(i)})
                 /\ \A i \in selectedIndexes :
                      passesOnFetched(i) =>
                          webDesignRules[i].id \notin violationIds(r.violations)
            /\ ~FetchSucceeded => r.summary.passedRules = 0

\* an evaluated page on which at least two rules passed and at least three
\* failed, one of them of severity 'info'
C2_Witness ==
    /\ FetchSucceeded
    /\ Len(result[1].violations) >= 3
    /\ result[1].summary.passedRules >= 2
    /\ withSeverity(result[1].violations, {"info"}) >= 1

(***************************************************************************)
(* C3                                                                      *)
(***************************************************************************)
\* round(100 * passed / total), halves upwards, by repeated comparison
roundedPercent(passed, total) ==
    CHOOSE n \in 0..100 : 2 * total * n - total <= 200 * passed
                          /\ 200 * passed < 2 * total * n + total

\* C3 (as stated): after a successful fetch overallScore is round(100 *
\* passedRules / totalRules) when totalRules > 0 and 0 when no rule was
\* selected; it is always an integer in 0..100 (never NaN).
C3_ScoreIsRoundedPercentOrZero ==
    FetchSucceeded =>
        LET r == result[1]
        IN  /\ ~r.overallScore.nan
            /\ r.overallScore.val \in 0..100
            /\ r.overallScore.val =
                 IF r.summary.totalRules > 0
                 THEN roundedPercent(r.summary.passedRules, r.summary.totalRules)
                 ELSE 0

(***************************************************************************)
(* C4                                                                      *)
(***************************************************************************)
\* the message of the failure that settled the fetch, read off the events
failureMessages ==
    {MSG_timeout, MSG_connection, MSG_aborted}
        \cup {httpErrorMessage(c) : c \in StatusCodes}

messageFitsEvents(message) ==
    /\ message \in failureMessages
    /\ message = MSG_timeout => timeoutId = "fired"
    /\ message = MSG_aborted =>
          \/ res # <<>> /\ ~statusRejected(res[1].statusCode)
          \/ redirectRes # <<>>
    /\ \A c \in StatusCodes :
          message = httpErrorMessage(c) => res # <<>> /\ res[1].statusCode = c

C5_SyntheticOnlyFromFetchFailure ==
    (Returned /\ ID_connection_error \in violationIds(result[1].violations)) =>
        /\ requests.first > 0
        /\ promise.state = "rejected"

(***************************************************************************)
(* C6                                                                      *)
(***************************************************************************)
\* C6: every call to analyzeWebsite eventually returns: the 10 s timeout
\* bounds the whole fetch step, also when the server sends its headers and
\* then stalls, or stalls during the redirect hop.
C6_EveryCallReturns == (pc = "awaiting") ~> Returned

(***************************************************************************)
(* C7                                                                      *)
(***************************************************************************)
\* the first response was a 3xx with a Location header
FirstWasRedirect ==
    res # <<>> /\ isRedirect(res[1].statusCode, res[1].location)

\* C7: a 3xx first response with a Location header (one that resolves to a
\* URL) triggers exactly one second request; the second response's body and
\* headers are what is evaluated, whatever its status; there is never a
\* third request.
C7_SingleRedirectHop ==
    /\ requests.first <= 1 /\ requests.redirect <= 1
    /\ (FirstWasRedirect /\ resolveURL(res[1].location, siteUrl).ok) =>
          requests.redirect = 1
    /\ ~FirstWasRedirect => requests.redirect = 0
    /\ (FirstWasRedirect /\ FetchSucceeded) =>
          /\ redirectRes # <<>>
          /\ result[1] = successResult(rulesToCheck, redirectRes[1].html,
                                       redirectRes[1].headers, siteUrl)

(***************************************************************************)
(* C8                                                                      *)
(***************************************************************************)
\* C8: for a first response that is not a followed redirect, the analysis
\* fails with an error carrying status code and reason phrase if and only
\* if the status is not 2xx; every 2xx response is evaluated. (Stated for
\* responses that arrive before the timer fires.)
C8_RejectedIffNot2xx ==
    (res # <<>> /\ ~FirstWasRedirect /\ timeoutId # "fired") =>
        LET statusCode == res[1].statusCode
            is2xx == statusCode >= 200 /\ statusCode < 300
        IN  /\ ~is2xx <=> (/\ promise.state = "rejected"
                           /\ promise.error = httpErrorMessage(statusCode))
            /\ (is2xx /\ Returned /\ promise.state = "resolved") =>
                  result[1] = successResult(rulesToCheck, res[1].html,
                                            res[1].headers, siteUrl)

(***************************************************************************)
(* C9                                                                      *)
(***************************************************************************)
\* C9: for every fetch failure (timeout, rejected status, connection error
\* on the first request or on the redirect hop) analyzeWebsite resolves with
\* the synthetic failure result and never rejects or throws to its caller;
\* nothing is retried: each of the two URLs is requested at most once.
C9_FailureResolvesWithoutRetry ==
    /\ requests.first <= 1 /\ requests.redirect <= 1
    /\ requests.first > 0 => pc # "threw"
    /\ promise.state = "rejected" =>
          \/ pc = "awaiting" /\ ~uncaught /\ ENABLED analyzeCatch
          \/ /\ pc \in {"returned", "responded"}
             /\ result = << failureResult(rulesToCheck, siteUrl, promise.error) >>
    /\ (promise.state = "rejected" /\ pc = "responded") => httpStatus = 200

\* a connection error on the redirect hop, answered with the failure result
C9_Witness ==
    /\ requests.redirect = 1
    /\ promise.state = "rejected"
    /\ promise.error = MSG_connection
    /\ Returned
    /\ httpStatus = 200

(***************************************************************************)
(* C10                                                                     *)
(***************************************************************************)
\* C10: a request whose siteUrl is missing or is no well-formed absolute URL
\* is answered 400 before any fetch is attempted and before any
\* AnalysisResult is produced; a request with a siteUrl is answered 500 only
\* when analyzeWebsite threw.
C10_MalformedUrlIs400 ==
    (pc = "responded" /\ method = "POST" /\ hasBody) =>
        /\ (~truthy(siteUrl) \/ ~parseURL(siteUrl).ok) =>
              httpStatus = 400 /\ requests.first = 0 /\ ~Returned
        /\ httpStatus = 500 => selectionThrows(defaultFilter(sourceFilter))

(***************************************************************************)
(* C11                                                                     *)
(***************************************************************************)
\* analyzeWebsite has selected its rules
Selected == requests.first > 0 \/ Returned

\* the ids of a list of rules
idsOf(rules) == [k \in 1..Len(rules) |-> rules[k].id]

\* C11: with the source filter 'all', '' or undefined the selection is the
\* entire catalog in catalog order; so selecting the RuleSource with the
\* empty ruleIds list (its id is 'all') evaluates every rule: after a
\* successful fetch every catalog rule either passed or has its violation.
C11_AllSelectsWholeCatalog ==
    /\ RULE_SOURCES[1].ruleIds = <<>>
    /\ RULE_SOURCES[1].id = <<"a", "l", "l">>
    /\ (Selected /\ sourceFilter \in {undefined, <<>>, RULE_SOURCES[1].id}) =>
          /\ rulesToCheck = webDesignRules
          /\ FetchSucceeded =>
                /\ result[1].summary.totalRules = Len(webDesignRules)
                /\ \A i \in 1..Len(webDesignRules) :
                      passesOnFetched(i) <=>
                          webDesignRules[i].id \notin violationIds(result[1].violations)

\* the 'all' source was selected, every rule was evaluated, some failed
C11_Witness ==
    /\ FetchSucceeded
    /\ sourceFilter = RULE_SOURCES[1].id
    /\ Len(rulesToCheck) = Len(webDesignRules)
    /\ Len(result[1].violations) > 1
    /\ result[1].summary.passedRules > 1

(***************************************************************************)
(* C12                                                                     *)
(***************************************************************************)
\* the k-th smallest element of a set of numbers
kthOf(S, k) == CHOOSE i \in S : Cardinality({j \in S : j < i}) = k - 1

\* C12: for a filter token other than 'all' (a non-empty string) the
\* selection is exactly the rules whose id starts with the token or whose
\* source contains it case-insensitively, in catalog order; a token that
\* matches no rule gives the empty selection. The tokens 'sec', 'OWASP',
\* 'mdn' and 'zzz' are spelled out.
C12_FilterSelectsUnion ==
    (Selected /\ isString(sourceFilter) /\ sourceFilter \notin {<<>>, STR_all}) =>
        /\ \A matching \in {selectedIndexes} :
              /\ Len(rulesToCheck) = Cardinality(matching)
              /\ \A k \in 1..Len(rulesToCheck) :
                    rulesToCheck[k] = webDesignRules[kthOf(matching, k)]
        /\ sourceFilter = <<"s", "e", "c">> =>
              idsOf(rulesToCheck) = <<ID_sec_001, ID_sec_002, ID_sec_003>>
        /\ sourceFilter = <<"O", "W", "A", "S", "P">> =>
              idsOf(rulesToCheck) = <<ID_sec_001, ID_sec_003>>
        /\ sourceFilter = <<"m", "d", "n">> =>
              idsOf(rulesToCheck) = <<ID_sec_002, ID_html_003, ID_js_003>>
        /\ sourceFilter = <<"z", "z", "z">> => rulesToCheck = <<>>

\* 'mdn' matched three sources written 'MDN ...' and no id; the rules were
\* evaluated
C12_Witness ==
    /\ FetchSucceeded
    /\ sourceFilter = <<"m", "d", "n">>
    /\ Len(rulesToCheck) = 3
    /\ result[1].summary.totalRules = 3

(***************************************************************************)
(* C13                                                                     *)
(***************************************************************************)
\* the elements of a sequence
elementsOf(seq) == {seq[k] : k \in 1..Len(seq)}

\* C13: for every RuleSource with a non-empty ruleIds list, an analysis run
\* with the source's id as the source filter evaluates exactly the rules of
\* the catalog that the ruleIds list names, no more and no fewer.
C13_SourceSelectsItsRuleIds ==
    \A s \in 1..Len(RULE_SOURCES) :
        (/\ FetchSucceeded
         /\ sourceFilter = RULE_SOURCES[s].id
         /\ RULE_SOURCES[s].ruleIds # <<>>) =>
            /\ elementsOf(idsOf(rulesToCheck)) =
                  elementsOf(idsOf(webDesignRules)) \cap elementsOf(RULE_SOURCES[s].ruleIds)
            /\ Len(rulesToCheck) = Cardinality(elementsOf(idsOf(rulesToCheck)))
            /\ result[1].summary.totalRules = Len(rulesToCheck)

(***************************************************************************)
(* C15 (TwoCallSpec)                                                       *)
(***************************************************************************)
\* the response whose body a call read: that of the redirect request when
\* there was one, else the first
ownResponse(call) ==
    IF call.redirectRes # <<>> THEN call.redirectRes[1] ELSE call.res[1]

\* what the call returns when it runs alone with the same arguments and the
\* same answers of the network
resultAlone(call) ==
    IF call.promise.state = "resolved"
    THEN successResult(selectRules(call.sourceFilter), ownResponse(call).html,
                       ownResponse(call).headers, call.siteUrl)
    ELSE failureResult(selectRules(call.sourceFilter), call.siteUrl,
                       call.promise.error)

\* C15: two calls of analyzeWebsite whose callbacks interleave in any order
\* each return the result they return when run alone (a function of the
\* call's own arguments and of the answers to its own requests), the rule
\* catalog is the same before and after, and no call is kept from returning
\* by the other: a call that waits with its timer armed, which alone returns
\* after 10 seconds at the latest, is in a process that still runs.
C15_CallsAreIndependent ==
    /\ catalog = webDesignRules
    /\ \A c \in DOMAIN calls :
          /\ calls[c].pc \notin {"idle"} =>
                calls[c].rulesToCheck = selectRules(calls[c].sourceFilter)
          /\ calls[c].pc = "returned" => calls[c].result = << resultAlone(calls[c]) >>
          /\ (calls[c].pc = "awaiting" /\ calls[c].timeoutId = "armed") => ~processDown

\* the part of C15 about the results: what a call returns, and the rules it
\* selected, are those of the call run alone, and the catalog is unchanged
C15_ResultsAreOwn ==
    /\ catalog = webDesignRules
    /\ \A c \in DOMAIN calls :
          /\ calls[c].pc \notin {"idle"} =>
                calls[c].rulesToCheck = selectRules(calls[c].sourceFilter)
          /\ calls[c].pc = "returned" => calls[c].result = << resultAlone(calls[c]) >>

\* both calls have returned, with different arguments: one evaluated the
\* page it fetched, the other the page it was redirected to
C15_BothReturned ==
    /\ DOMAIN calls = {1, 2}
    /\ calls[1].pc = "returned" /\ calls[2].pc = "returned"
    /\ calls[1].siteUrl # calls[2].siteUrl
    /\ calls[1].sourceFilter # calls[2].sourceFilter
    /\ calls[1].promise.state = "resolved" /\ calls[2].promise.state = "resolved"
    /\ calls[1].redirectRes = <<>> /\ calls[2].redirectRes # <<>>
    /\ calls[1].result # calls[2].result

(***************************************************************************)
(* C16                                                                     *)
(***************************************************************************)
\* the selected rules that do not pass on the fetched content
failingIndexes == {i \in selectedIndexes : ~passesOnFetched(i)}

\* C16: after a successful fetch the violations list has exactly one entry
\* for each selected rule that did not pass and none for a rule that passed,
\* in catalog order; the entry carries the id, category, severity and source
\* of its rule and the details of that rule's verdict.
C16_ViolationsInCatalogOrder ==
    FetchSucceeded =>
        \A failing \in {failingIndexes} :
            /\ Len(result[1].violations) = Cardinality(failing)
            /\ \A k \in 1..Len(result[1].violations) :
                  LET rule == webDesignRules[kthOf(failing, k)]
                      v == result[1].violations[k]
                  IN  /\ v.id = rule.id
                      /\ v.category = rule.category
                      /\ v.severity = rule.severity
                      /\ v.source = rule.source
                      /\ v.details =
                            performRuleCheck(rule, promise.value[1].html,
                                             promise.value[1].headers, siteUrl).details

\* three or more violations, with a rule that passed between two that failed
C16_Witness ==
    /\ FetchSucceeded
    /\ Len(result[1].violations) >= 3
    /\ \E i, j, k \in selectedIndexes :
          /\ i < j /\ j < k
          /\ ~passesOnFetched(i) /\ passesOnFetched(j) /\ ~passesOnFetched(k)

(***************************************************************************)
(* C17                                                                     *)
(***************************************************************************)
\* the text 'Fix N <category> issue(s)', for N below 100
fixText(n, category) ==
    LET digits == <<"0", "1", "2", "3", "4", "5", "6", "7", "8", "9">>
        number == IF n < 10 THEN <<digits[n + 1]>>
                  ELSE <<digits[(n \div 10) + 1], digits[(n % 10) + 1]>>
    IN  <<"F", "i", "x", " ">> \o number \o <<" ">> \o category \o
        <<" ", "i", "s", "s", "u", "e", "(", "s", ")">>

\* the position of the first violation of a category
firstOf(violations, category) ==
    CHOOSE i \in 1..Len(violations) :
        /\ violations[i].category = category
        /\ \A j \in 1..(i - 1) : violations[j].category # category

\* C17: after a successful fetch recommendations has one string 'Fix N
\* <category> issue(s)' per distinct violation category, N being the number
\* of violations of the category, in the order in which the categories first
\* occur in the violations list, cut to the first 5; its length is min(5,
\* number of distinct categories).
C17_RecommendationsPerCategory ==
    FetchSucceeded =>
        \A violations \in {result[1].violations}, recommendations \in {result[1].recommendations} :
            LET categories == {violations[i].category : i \in 1..Len(violations)}
                before(c) == {d \in categories :
                                firstOf(violations, d) < firstOf(violations, c)}
                count(c) == Cardinality({i \in 1..Len(violations) :
                                            violations[i].category = c})
            IN  /\ Len(recommendations) =
                      IF Cardinality(categories) < 5 THEN Cardinality(categories) ELSE 5
                /\ \A c \in categories :
                      Cardinality(before(c)) < 5 =>
                          recommendations[Cardinality(before(c)) + 1] = fixText(count(c), c)

\* violations of six categories, one of them with three violations: five
\* recommendations
C17_Witness ==
    /\ FetchSucceeded
    /\ Cardinality({result[1].violations[i].category :
                       i \in 1..Len(result[1].violations)}) = 6
    /\ Len(result[1].recommendations) = 5
    /\ result[1].recommendations[3] =
          <<"F", "i", "x", " ", "3", " ", "S", "e", "c", "u", "r", "i", "t", "y",
            " ", "i", "s", "s", "u", "e", "(", "s", ")">>

(***************************************************************************)
(* C18 (DispatchSpec)                                                      *)
(***************************************************************************)
\* the category of the probed rule contains the word, whatever the case
categoryHas(word) == includes(toLowerCase(probe.rule.category), word)

\* C18: a rule whose id has no case of its own is decided by its category:
\* containing 'javascript', it passes iff the body has fewer than 20
\* '<script'; else containing 'performance', iff the body is shorter than
\* 500,000; else containing 'accessibility', iff the body has 'aria-' or
\* 'alt='; a rule of none of these fails with a manual-inspection message.
C18_CategoryHeuristicOrder ==
    (verdict # <<>> /\ probe.rule.id \notin elementsOf(caseLabels)) =>
        LET javascript == categoryHas(<<"j", "a", "v", "a", "s", "c", "r", "i", "p", "t">>)
            performance == categoryHas(<<"p", "e", "r", "f", "o", "r", "m", "a", "n", "c", "e">>)
            accessibility == categoryHas(<<"a", "c", "c", "e", "s", "s", "i", "b", "i", "l", "i", "t", "y">>)
        IN  /\ javascript => (verdict[1].passed <=> probe.html.scripts < 20)
            /\ (~javascript /\ performance) =>
                  (verdict[1].passed <=> probe.html.size < 500000)
            /\ (~javascript /\ ~performance /\ accessibility) =>
                  (verdict[1].passed <=> (probe.html.aria \/ probe.html.alt))
            /\ (~javascript /\ ~performance /\ ~accessibility) =>
                  /\ ~verdict[1].passed
                  /\ verdict[1].details =
                        "This rule requires manual inspection or advanced tooling: "
                            \o probe.rule.name

\* a rule of category 'JavaScript Performance' without a case passed on a
\* body of 500,000 characters with nineteen script tags
C18_Witness ==
    /\ verdict # <<>>
    /\ probe.rule.id \notin elementsOf(caseLabels)
    /\ categoryHas(<<"j", "a", "v", "a", "s", "c", "r", "i", "p", "t">>) /\ categoryHas(<<"p", "e", "r", "f", "o", "r", "m", "a", "n", "c", "e">>)
    /\ probe.html.scripts = 19 /\ probe.html.size = 500000
    /\ verdict[1].passed

(***************************************************************************)
(* C19 (DispatchSpec)                                                      *)
(***************************************************************************)
\* C19: every rule id in the ruleIds of some RuleSource is the id of a
\* catalog rule, and every catalog rule is in the ruleIds of at least one
\* RuleSource; the source integrity check reports no missing and no
\* orphaned rule.
C19_SourcesAndCatalogAgree ==
    /\ \A s \in 1..Len(RULE_SOURCES) :
          \A k \in 1..Len(RULE_SOURCES[s].ruleIds) :
              RULE_SOURCES[s].ruleIds[k] \in elementsOf(catalogRuleIds)
    /\ \A i \in 1..Len(catalogRuleIds) :
          \E s \in 1..Len(RULE_SOURCES) :
              catalogRuleIds[i] \in elementsOf(RULE_SOURCES[s].ruleIds)
    /\ integrity # <<>> =>
          /\ integrity[1].missingRules = {}
          /\ integrity[1].orphanedRules = {}

\* the integrity check ran over the forty ids of the catalog
C19_Witness ==
    /\ integrity # <<>>
    /\ Cardinality(actualRuleIds) = 40
    /\ Cardinality(allReferencedRuleIds) = 40

(***************************************************************************)
(* C20 (DispatchSpec)                                                      *)
(***************************************************************************)
\* C20: every rule id of the catalog has a case of its own in the switch of
\* performRuleCheck (check-rules.js finds all implemented, none missing), so
\* the verdict of a catalog rule is never the one of the default clause.
C20_EveryCatalogRuleHasCase ==
    /\ coverage # <<>> =>
          /\ coverage[1].notImplemented = <<>>
          /\ coverage[1].implemented = catalogRuleIds
    /\ \A i \in 1..Len(ModelledRules) :
          ModelledRules[i].id \in elementsOf(catalogRuleIds)
    /\ (verdict # <<>> /\ probe.rule.id \in elementsOf(catalogRuleIds)) =>
          verdict[1] # defaultCheck(probe.rule, probe.html)

\* check-rules.js ran, and the rule of the last case of the switch that the
\* model carries (seo-005) was decided
C20_Witness ==
    /\ coverage # <<>>
    /\ Len(coverage[1].implemented) = 40
    /\ verdict # <<>>
    /\ probe.rule.id = <<"s", "e", "o", "-", "0", "0", "5">>
    /\ ~verdict[1].passed

(***************************************************************************)
(* C21 (UrlSpec)                                                           *)
(***************************************************************************)
\* the host name with a 'www.' in front taken off, and no other change
withoutLeadingWww(host) ==
    IF startsWith(host, <<"w", "w", "w", ".">>) THEN SubSeq(host, 5, Len(host)) ELSE host

\* C21: siteName in the result is the hostname of siteUrl with a leading
\* 'www.' removed, and the hostname itself when it does not start with
\* 'www.': a 'www.' elsewhere in the hostname stays.
C21_SiteNameStripsLeadingWww ==
    (Returned /\ parseURL(siteUrl).ok) =>
        result[1].siteName = withoutLeadingWww(hostname(siteUrl))

\* the part of C21 about host names that start with 'www.' or do not contain
\* it: the leading 'www.' is removed, the others are returned as they are
C21_LeadingWwwRemoved ==
    (Returned /\ parseURL(siteUrl).ok
              /\ (startsWith(hostname(siteUrl), <<"w", "w", "w", ".">>)
                  \/ ~includes(hostname(siteUrl), <<"w", "w", "w", ".">>))) =>
        result[1].siteName = withoutLeadingWww(hostname(siteUrl))

(***************************************************************************)
(* C22 (DispatchSpec)                                                      *)
(***************************************************************************)
\* the ids the switch of performRuleCheck has two cases for
TwiceDefinedIds == {ID_html_002, ID_seo_003, ID_seo_006, ID_sec_002, ID_sec_003}

\* C22: for a rule id with two definitions in the dispatch of
\* performRuleCheck the verdict returned is the one the later definition
\* computes: sec-002 passes iff a Content-Security-Policy header is present,
\* sec-003 iff at least two of X-Content-Type-Options, X-Frame-Options and
\* Referrer-Policy are, html-002 iff <html> has a lang attribute.
C22_LaterDefinitionDecides ==
    (verdict # <<>> /\ probe.rule.id \in TwiceDefinedIds) =>
        verdict[1].passed = laterDefinition(probe.rule, probe.html, probe.headers).passed

(***************************************************************************)
(* C23 (DispatchSpec)                                                      *)
(***************************************************************************)
\* the ids the claim lists as routed to one predicate
SharedPredicateGroups == {
        {<<"j", "s", "-", "0", "0", "2">>,
         <<"p", "e", "r", "f", "-", "0", "0", "3">>,
         <<"l", "i", "g", "h", "t", "h", "o", "u", "s", "e", "-", "0", "0", "2">>},
        {<<"p", "e", "r", "f", "-", "0", "0", "2">>,
         <<"l", "i", "g", "h", "t", "h", "o", "u", "s", "e", "-", "0", "0", "1">>},
        {<<"p", "e", "r", "f", "-", "0", "0", "1">>,
         <<"c", "w", "v", "-", "0", "0", "1">>},
        {<<"j", "s", "-", "0", "0", "1">>,
         <<"c", "w", "v", "-", "0", "0", "3">>},
        {<<"s", "e", "c", "-", "0", "0", "1">>,
         <<"p", "w", "a", "-", "0", "0", "3">>} }

\* the probed rule object with the id
ruleWithId(id) == CHOOSE r \in ProbeRules : r.id = id

\* C23: rule ids routed to a shared predicate get the same pass/fail verdict
\* on the same input: js-002, perf-003 and lighthouse-002; perf-002 and
\* lighthouse-001; perf-001 and cwv-001; js-001 and cwv-003; sec-001 and
\* pwa-003, for every site URL.
C23_SharedPredicatesAgree ==
    verdict # <<>> =>
        \A group \in SharedPredicateGroups :
            probe.rule.id \in group =>
                \A other \in group :
                    performRuleCheck(ruleWithId(other), probe.html, probe.headers,
                                     probe.siteUrl).passed = verdict[1].passed

\* perf-003 failed on a small page with one render-blocking script, where
\* the category heuristic for a performance rule passes
C23_Witness ==
    /\ verdict # <<>>
    /\ probe.rule.id = <<"p", "e", "r", "f", "-", "0", "0", "3">>
    /\ probe.html.blockingScripts = 1 /\ probe.html.size < 500000
    /\ ~verdict[1].passed

(***************************************************************************)
(* C24 (UrlSpec)                                                           *)
(***************************************************************************)
\* sec-001 was evaluated on fetched content
Sec001Evaluated ==
    FetchSucceeded /\ ID_sec_001 \in elementsOf(idsOf(rulesToCheck))

\* C24: sec-001 passes if and only if the scheme of the analysed URL is
\* https, that is exactly when the request for that URL was made with the
\* https module, whatever the case the scheme is written in.
C24_VerdictMatchesTransport ==
    Sec001Evaluated =>
        ((ID_sec_001 \notin violationIds(result[1].violations))
            <=> protocolModule(siteUrl) = "https")

\* the part of C24 about URLs whose scheme is written in lower case
C24_LowerCaseSchemes ==
    (Sec001Evaluated /\ siteUrl = toLowerCase(siteUrl)) =>
        ((ID_sec_001 \notin violationIds(result[1].violations))
            <=> protocolModule(siteUrl) = "https")

(***************************************************************************)
(* C25 (DispatchSpec)                                                      *)
(***************************************************************************)
\* the least element of a non-empty set of numbers
least(S) == CHOOSE i \in S : \A j \in S : i <= j

\* the text of the first <title> element of a text, as << text >>, or << >>
\* when there is none: the element is a start tag <title ...>, with or
\* without attributes, and the </title> after it
titleElement(text) ==
    LET lower == toLowerCase(text)
        tags == {i \in 1..(Len(text) - 6) :
                    /\ SubSeq(lower, i, i + 5) = <<"<", "t", "i", "t", "l", "e">>
                    /\ lower[i + 6] \in {">", " "}}
        closeOf(i) == {j \in i..Len(text) : text[j] = ">"}
        endsAfter(k) == {j \in k..(Len(text) - 7) :
                            SubSeq(lower, j, j + 7) =
                                <<"<", "/", "t", "i", "t", "l", "e", ">">>}
        elements == {i \in tags : closeOf(i) # {} /\ endsAfter(least(closeOf(i))) # {}}
    IN  IF elements = {} THEN <<>>
        ELSE LET i == least(elements)
                 from == least(closeOf(i)) + 1
             IN  << SubSeq(text, from, least(endsAfter(from - 1)) - 1) >>

\* the trimmed text of the title of the probed body, << >> without a title
probedTitle ==
    IF titleElement(probe.html.text) = <<>> THEN <<>>
    ELSE trim(titleElement(probe.html.text)[1])

MissingTitleText == <<"M", "i", "s", "s", "i", "n", "g", " ", "o", "r", " ", "e", "m", "p", "t", "y", " ", "p", "a", "g", "e", " ", "t", "i", "t", "l", "e", ".">>

\* C25: seo-001 passes if and only if a <title> element with non-empty
\* trimmed text exists and the trimmed text has between 10 and 60 characters;
\* a title of another length fails with details that quote the title and its
\* length, not 'Missing or empty page title.'.
C25_TitleLengthDecides ==
    (verdict # <<>> /\ probe.rule.id = ID_seo_001) =>
        LET length == Len(probedTitle)
        IN  /\ verdict[1].passed <=> (length >= 10 /\ length <= 60)
            /\ (length > 0 /\ (length < 10 \/ length > 60)) =>
                  /\ verdict[1].details # MissingTitleText
                  /\ includes(verdict[1].details, probedTitle)
                  /\ includes(verdict[1].details, numberText(length))

\* the part of C25 about titles whose start tag has no attributes
C25_PlainTitleLengthDecides ==
    (verdict # <<>> /\ probe.rule.id = ID_seo_001
         /\ ~includes(toLowerCase(probe.html.text), <<"<", "t", "i", "t", "l", "e", " ">>)) =>
        LET length == Len(probedTitle)
        IN  /\ verdict[1].passed <=> (length >= 10 /\ length <= 60)
            /\ (length > 0 /\ (length < 10 \/ length > 60)) =>
                  /\ verdict[1].details # MissingTitleText
                  /\ includes(verdict[1].details, probedTitle)
                  /\ includes(verdict[1].details, numberText(length))

(***************************************************************************)
(* C26 (DispatchSpec)                                                      *)
(***************************************************************************)
\* the positions at which a start tag of the given heading level opens
headingTags(text, level) ==
    UNION {{i \in 1..(Len(lower) - 2) : SubSeq(lower, i, i + 2) = <<"<", "h", level>>} :
              lower \in {toLowerCase(text)}}

\* the opened start tags that are closed by a > somewhere after them
closedHeadingTags(text, level) ==
    {i \in headingTags(text, level) : \E j \in (i + 3)..Len(text) : text[j] = ">"}

\* C26: seo-003 passes if and only if the page has exactly one <h1> and
\* does not have an <h3> while having no <h2>; a page with no <h1> or with
\* several fails whatever its other headings are.
C26_OneH1AndNoSkippedLevel ==
    (verdict # <<>> /\ probe.rule.id = ID_seo_003) =>
        LET text == probe.html.text
            h1s == Cardinality(headingTags(text, "1"))
            skips == /\ closedHeadingTags(text, "3") # {}
                     /\ closedHeadingTags(text, "2") = {}
        IN  /\ verdict[1].passed <=> (h1s = 1 /\ ~skips)
            /\ h1s # 1 => ~verdict[1].passed

\* seo-003 was evaluated on a page with several <h1> and no skipped level
C26_Witness ==
    /\ verdict # <<>>
    /\ probe.rule.id = ID_seo_003
    /\ Cardinality(headingTags(probe.html.text, "1")) > 1
    /\ ~(closedHeadingTags(probe.html.text, "3") # {}
           /\ closedHeadingTags(probe.html.text, "2") = {})
    /\ ~verdict[1].passed

(***************************************************************************)
(* C27 (DispatchSpec)                                                      *)
(***************************************************************************)
\* the pattern and context the probed rule hands to the evidence
\* extraction, as << literal, context >>; << >> when it extracts nothing
requestedEvidence ==
    IF probe.rule.id = ID_seo_001
    THEN IF match_title(probe.html.text) # <<>>
         THEN << <<"<", "t", "i", "t", "l", "e", ">">>, 1 >>
         ELSE << <<"<", "h", "e", "a", "d">>, 3 >>
    ELSE IF Cardinality(headingTags(probe.html.text, "1")) # 1
    THEN << <<"<", "h", "1">>, 2 >>
    ELSE IF closedHeadingTags(probe.html.text, "3") # {}
              /\ closedHeadingTags(probe.html.text, "2") = {}
    THEN << <<"<", "h", "3">>, 2 >>
    ELSE <<>>

\* the positions of the line feeds of a text, and its lines by number: line
\* n runs from the character after the (n-1)th line feed to the character
\* before the nth
lineFeeds(text) == {i \in 1..Len(text) : text[i] = "\n"}
lineCount(text) == Cardinality(lineFeeds(text)) + 1
lineStart(text, n) ==
    IF n = 1 THEN 1
    ELSE 1 + CHOOSE i \in lineFeeds(text) :
                 Cardinality({j \in lineFeeds(text) : j <= i}) = n - 1
lineEnd(text, n) ==
    IF n = lineCount(text) THEN Len(text)
    ELSE (CHOOSE i \in lineFeeds(text) :
              Cardinality({j \in lineFeeds(text) : j <= i}) = n) - 1
lineOf(text, n) == SubSeq(text, lineStart(text, n), lineEnd(text, n))

\* C27: the evidence of a verdict is the 1-based number of the first line
\* that matches the pattern and the lines within the context before and
\* after it, clipped to the text, trimmed and cut to at most 500
\* characters; without a matching line both are null; never one of them
\* alone, and a line number lies between 1 and the number of lines.
C27_EvidenceIsFirstMatchingLine ==
    (verdict # <<>> /\ probe.rule.id \in TextRuleIds) =>
        LET text == probe.html.text
            snippet == verdict[1].codeSnippet
            lineNumber == verdict[1].lineNumber
            linesMatching(requested) ==
                IF requested = <<>> THEN {}
                ELSE {n \in 1..lineCount(text) :
                         includes(toLowerCase(lineOf(text, n)), requested[1])}
        IN  \A evidence \in {requestedEvidence} :
            \A matching \in {linesMatching(evidence)} :
            /\ (snippet = <<>>) <=> (lineNumber = <<>>)
            /\ (matching = {}) <=> (lineNumber = <<>>)
            /\ lineNumber # <<>> =>
                  LET n == lineNumber[1]
                      context == evidence[2]
                      from == IF n - context < 1 THEN 1 ELSE n - context
                      to == IF n + context > lineCount(text) THEN lineCount(text)
                            ELSE n + context
                  IN  /\ n \in 1..lineCount(text)
                      /\ n \in matching
                      /\ \A m \in matching : n <= m
                      /\ Len(snippet[1]) <= 500
                      /\ \A block \in {trim(SubSeq(text, lineStart(text, from),
                                                    lineEnd(text, to)))} :
                            /\ Len(snippet[1]) =
                                  (IF Len(block) > 500 THEN 500 ELSE Len(block))
                            /\ snippet[1] = SubSeq(block, 1, Len(snippet[1]))

\* evidence was cut to 500 characters
C27_Witness ==
    /\ verdict # <<>>
    /\ probe.rule.id \in TextRuleIds
    /\ verdict[1].lineNumber # <<>>
    /\ Len(verdict[1].codeSnippet[1]) = 500

\* evidence was found past the first line, with lines before and after it
C27_LaterLine ==
    /\ verdict # <<>>
    /\ probe.rule.id \in TextRuleIds
    /\ verdict[1].lineNumber # <<>>
    /\ verdict[1].lineNumber[1] > 2
    /\ includes(verdict[1].codeSnippet[1], <<"\n">>)

(***************************************************************************)
(* C28 (DispatchSpec)                                                      *)
(***************************************************************************)
\* the probed rule has no case of its own and a category that none of the
\* heuristics of the default clause looks for, and was evaluated
UnmatchedRuleEvaluated ==
    /\ verdict # <<>>
    /\ probe.rule.id \notin elementsOf(caseLabels)
    /\ ~categoryHas(<<"j", "a", "v", "a", "s", "c", "r", "i", "p", "t">>)
    /\ ~categoryHas(<<"p", "e", "r", "f", "o", "r", "m", "a", "n", "c", "e">>)
    /\ ~categoryHas(<<"a", "c", "c", "e", "s", "s", "i", "b", "i", "l", "i", "t", "y">>)

\* what the loop over the rules makes of the probed rule alone
probedRuleCounted ==
    checkOneRule([violations |-> <<>>, summary |-> Summary(1, 0, 0, 0, 0)],
                 probe.rule, probe.html, probe.headers, probe.siteUrl)

\* C28 as stated: a rule id without a specific predicate whose category
\* matches none of the category heuristics is given an optimistic pass: it
\* is counted in passedRules and produces no violation.
C28_OptimisticPass ==
    UnmatchedRuleEvaluated =>
        /\ verdict[1].passed
        /\ probedRuleCounted.summary.passedRules = 1
        /\ probedRuleCounted.violations = <<>>

\* C28 as the code has it: such a rule fails; it is not counted in
\* passedRules and produces a violation that names the rule and asks for
\* manual inspection.
C28_UnmatchedRuleFails ==
    UnmatchedRuleEvaluated =>
        /\ ~verdict[1].passed
        /\ probedRuleCounted.summary.passedRules = 0
        /\ Len(probedRuleCounted.violations) = 1
        /\ probedRuleCounted.violations[1].id = probe.rule.id
        /\ probedRuleCounted.violations[1].details = verdict[1].details

\* a rule of category 'User Experience' outside the catalog was evaluated
C28_Witness ==
    /\ UnmatchedRuleEvaluated
    /\ probe.rule.category =
          <<"U", "s", "e", "r", " ", "E", "x", "p", "e", "r", "i", "e", "n", "c", "e">>
    /\ ~verdict[1].passed

(***************************************************************************)
(* C29                                                                     *)
(***************************************************************************)
\* C29: the first settling event among the timer, a request error, the end
\* of the response and a status other than 200 decides the outcome of the
\* fetch step; later events never change the result already returned, and
\* once analyzeWebsite has returned no further HTTP request is issued for
\* the call: a late 3xx response after a timeout starts no redirect request.
C29_FirstSettlingEventDecides ==
    [][/\ promise.state \in {"resolved", "rejected"} => promise' = promise
       /\ Returned => (result' = result /\ requests' = requests)]_vars

\* the part of C29 about the outcome: a settled promise and a returned
\* result never change
C29_OutcomeIsFinal ==
    [][/\ promise.state \in {"resolved", "rejected"} => promise' = promise
       /\ Returned => result' = result]_vars

(***************************************************************************)
(* C30 (UiSpec)                                                            *)
(***************************************************************************)
\* C30: in the component, for any sequence of analyzeWebsite() calls and
\* arrivals of answers and errors, isAnalyzing is true exactly while at
\* least one analysis request is outstanding, and when none is outstanding
\* the analysisResult (or error) displayed is that of the analysis started
\* most recently, never that of an earlier one whose answer arrived late.
C30_LatestAnalysisShown ==
    /\ component.isAnalyzing <=> (component.subscriptions # {})
    /\ (component.subscriptions = {} /\ component.analysisResult # <<>>) =>
          component.analysisResult[1].analysis = component.started

\* the part of C30 that holds: isAnalyzing is true only while a request is
\* outstanding, and as long as one analysis only was started it is true
\* exactly while the request is outstanding and the result displayed is
\* that of the analysis
C30_SingleAnalysis ==
    /\ component.isAnalyzing => component.subscriptions # {}
    /\ component.started <= 1 =>
          /\ component.isAnalyzing <=> (component.subscriptions # {})
          /\ component.analysisResult # <<>> =>
                component.analysisResult[1].analysis = component.started
====
